---- MODULE Spec2Model ----
(***************************************************************************)
(* The AWS CodeCommit platform adapter of renovate                         *)
(* (lib/modules/platform/codecommit/index.ts) as a state machine.          *)
(*                                                                         *)
(* State: the module-level `config` object (the session context with its   *)
(* PR-list cache slot `prList`), the remote CodeCommit store the adapter   *)
(* talks to, and `last`, the record of the adapter call that has just      *)
(* returned to the orchestrator (its arguments, its result, whether it     *)
(* threw, and the remote calls it issued, in order).  The orchestrator is  *)
(* sequential: it takes the result (`last` goes back to idle) before it    *)
(* makes its next call.  `created` is a history variable: the pull         *)
(* requests made through createPr since the cache slot was last reset,     *)
(* each with whether the slot was populated when it was made.  `threads` is *)
(* the remote comment stream of each pull request, and `prev` the record   *)
(* of the ensureComment call whose result the orchestrator took last, as   *)
(* long as nothing has touched the comment streams since.  `iam` is the    *)
(* module-level identity client of iam-client.ts: undefined until it is    *)
(* built, then the region and credentials it was built from.  `callers`    *)
(* holds the getPrList invocations that are suspended at an await, for the *)
(* executions in which a second invocation starts before the first ends.   *)
(*                                                                         *)
(* Strings are sequences of tokens: "refs/heads/x" is <<"refs/heads/","x">>*)
(* so that prefixing and startsWith are computed, not assumed.  A PR id on *)
(* the wire is a sequence of decimal digits.  An optional value is a       *)
(* sequence of length at most one: <<>> is undefined/null, <<v>> is v.     *)
(***************************************************************************)
EXTENDS Integers, Sequences, FiniteSets

VARIABLES config, remotePrs, last, created, threads, prev, iam, callers

vars == <<config, remotePrs, last, created, threads, prev, iam, callers>>

\* The comment streams and the memory of the last comment reconciliation.
commentVars == <<threads, prev>>

\* ------------------------------------------------------------------ bounds

\* The remote store holds at most MaxPrId pull requests (ids 1..MaxPrId).
MaxPrId == 2

\* The comment streams hold at most MaxComments comments and empty threads.
MaxComments == 3

\* The byte budget of a pull request description (smartTruncate's limit).
ContentBudget == 10239

PrIds == 1..MaxPrId

\* ----------------------------------------------------------- value domains

Undefined == <<>>
Some(v) == <<v>>
IsDefined(o) == o # <<>>
Get(o) == o[1]

RefsHeads == "refs/heads/"

\* Branch names the callers use, and the titles of pull requests.
BranchNames == {<<"x">>, <<"y">>}
Titles == {"a", "b"}
Repositories == {"repoA", "repoB"}

\* PrState of lib/types: the three results and the two query-only values.
PrStateOpen == "open"
PrStateClosed == "closed"
PrStateMerged == "merged"
PrStateNotOpen == "!open"
PrStateAll == "all"
PrStates == {PrStateOpen, PrStateClosed, PrStateMerged, PrStateNotOpen, PrStateAll}

\* PullRequestStatusEnum of the AWS SDK.
StatusOPEN == "OPEN"
StatusCLOSED == "CLOSED"
RawStatuses == {StatusOPEN, StatusCLOSED}

TargetRef == <<RefsHeads, "main">>

\* ------------------------------------------------------------ conversions

\* `${n}`: the decimal digits of a non-negative integer.
RECURSIVE IdString(_)
IdString(n) == IF n < 10 THEN <<n>> ELSE Append(IdString(n \div 10), n % 10)

\* Number.parseInt on a sequence of decimal digits.
RECURSIVE ParseInt(_)
ParseInt(s) ==
  IF Len(s) = 0 THEN 0
  ELSE 10 * ParseInt(SubSeq(s, 1, Len(s) - 1)) + s[Len(s)]

\* getNewBranchName of ../util: the ref form of a branch name.
getNewBranchName(branchName) ==
  IF Len(branchName) > 0 /\ Head(branchName) # RefsHeads
  THEN <<RefsHeads>> \o branchName
  ELSE branchName

\* ------------------------------------------------------------ remote store

\* client.getPr(prId): the GetPullRequest output, or undefined when the PR
\* does not exist or the call fails (the client swallows the error).
clientGetPr(prId, fails) ==
  LET n == ParseInt(prId) IN
  IF fails \/ n < 1 \/ n > Len(remotePrs) THEN Undefined
  ELSE Some(remotePrs[n])

\* One remote call in the log of an adapter call: the client function, the
\* pull request it names (0: none) and whether it answered with data (ok) or
\* was rejected or came back empty.
Call(api, n, ok) == [api |-> api, arg |-> n, ok |-> ok]

\* The record of a call that returned (or threw).
Returned(op, args, threw, result, calls) ==
  [op |-> op, args |-> args, threw |-> threw, result |-> result, calls |-> calls]

NoCall == Returned("none", <<>>, FALSE, Undefined, <<>>)

\* The orchestrator holds no unconsumed result: it may make its next call.
Idle == last = NoCall

\* ---------------------------------------------------------- translation

\* Mutant of getPrState: the raw status is looked at first.
getPrStateRawFirst(prInfo) ==
  IF prInfo.pullRequestStatus = StatusOPEN THEN PrStateOpen
  ELSE IF prInfo.isMerged THEN PrStateMerged
  ELSE PrStateClosed

\* getPr's derived state (merged overrides the raw status).
getPrState(prInfo) ==
  IF prInfo.isMerged THEN PrStateMerged
  ELSE IF prInfo.pullRequestStatus = StatusOPEN THEN PrStateOpen
  ELSE PrStateClosed

\* getPrList's derived state of a directory entry.
getPrListState(prInfo) ==
  IF prInfo.pullRequestStatus = StatusOPEN THEN PrStateOpen ELSE PrStateClosed

\* The directory entry getPrList builds for one listed id.
getPrListEntry(prId, prInfo) ==
  [ targetBranch |-> prInfo.destinationReference,
    sourceBranch |-> prInfo.sourceReference,
    state |-> getPrListState(prInfo),
    number |-> ParseInt(prId),
    title |-> prInfo.title ]

\* The Pr getPr builds from a fetched record.
getPrResult(pullRequestId, prInfo) ==
  [ sourceBranch |-> prInfo.sourceReference,
    state |-> getPrState(prInfo),
    number |-> pullRequestId,
    title |-> prInfo.title,
    targetBranch |-> prInfo.destinationReference ]

\* --------------------------------------------------------------- getPrList

\* What client.listPullRequests can answer: a rejection, no response object,
\* a response without pullRequestIds, or the ids of existing pull requests in
\* the remote's order.
ListingKinds == {"rejects", "undefined", "noIds", "ids"}

IdSequences(n) ==
  { s \in UNION { [1..k -> 1..n] : k \in 0..n } :
      \A i, j \in DOMAIN s : i # j => s[i] # s[j] }

NoListing == [kind |-> "undefined", ids |-> <<>>]

Listings ==
  { [kind |-> k, ids |-> <<>>] : k \in ListingKinds \ {"ids"} } \cup
  { [kind |-> "ids", ids |-> [i \in DOMAIN s |-> IdString(s[i])]] :
      s \in IdSequences(Len(remotePrs)) \ {<<>>} }

\* The answers that matter to a call made now: none is asked for while the
\* cache slot is populated.
ListingsNow == IF IsDefined(config.prList) THEN {NoListing} ELSE Listings

\* The ids of a listing whose single fetch may return no data.
NoDataSets(listing) == SUBSET { ParseInt(listing.ids[i]) : i \in DOMAIN listing.ids }

\* Mutant of fetchPrs: the entries are collected from the last id to the
\* first.
RECURSIVE fetchPrsReversed(_, _)
fetchPrsReversed(prIds, nodata) ==
  IF prIds = <<>> THEN <<>>
  ELSE LET prId == Head(prIds)
           prRes == clientGetPr(prId, ParseInt(prId) \in nodata)
       IN fetchPrsReversed(Tail(prIds), nodata) \o
          (IF IsDefined(prRes)
           THEN <<getPrListEntry(prId, Get(prRes))>>
           ELSE <<>>)

\* The loop over prIds: one client.getPr per id, in order; an id whose fetch
\* returns no pullRequest is skipped.
RECURSIVE fetchPrs(_, _)
fetchPrs(prIds, nodata) ==
  IF prIds = <<>> THEN <<>>
  ELSE LET prId == Head(prIds)
           prRes == clientGetPr(prId, ParseInt(prId) \in nodata)
       IN (IF IsDefined(prRes)
           THEN <<getPrListEntry(prId, Get(prRes))>>
           ELSE <<>>) \o fetchPrs(Tail(prIds), nodata)

fetchCalls(prIds, nodata) ==
  [i \in DOMAIN prIds |->
     Call("getPr", ParseInt(prIds[i]),
          IsDefined(clientGetPr(prIds[i], ParseInt(prIds[i]) \in nodata)))]

\* The client.listPullRequests call in the log when its answer is iterated:
\* the ids it listed, in the remote's order.
ListingCall(prIds) ==
  [api |-> "listPullRequests", arg |-> 0, ok |-> TRUE, ids |-> prIds]

\* Mutant of getPrListRejectedSlot: a rejected listing is cached as an empty
\* directory.
getPrListRejectedSlotEmptied(listing) == Some(<<>>)

\* The cache slot after a rejected listing: getPrList is left by the
\* rejection before it wrote anything.
getPrListRejectedSlot(listing) == config.prList

\* A run of getPrList that asks the remote: the listing, then the fetches.
getPrListRemote(listing, nodata) ==
  IF listing.kind = "rejects"
  THEN [threw |-> TRUE, result |-> <<>>,
        prList |-> getPrListRejectedSlot(listing),
        calls |-> <<Call("listPullRequests", 0, FALSE)>>]
  ELSE IF listing.kind = "noIds"
  THEN [threw |-> FALSE, result |-> <<>>,
        prList |-> config.prList,
        calls |-> <<Call("listPullRequests", 0, TRUE)>>]
  ELSE LET prIds == IF listing.kind = "undefined" THEN <<>> ELSE listing.ids
           fetchedPrs == fetchPrs(prIds, nodata)
       IN [threw |-> FALSE, result |-> fetchedPrs,
           prList |-> Some(fetchedPrs),
           calls |-> <<ListingCall(prIds)>> \o fetchCalls(prIds, nodata)]

\* Mutant of getPrListRun: the cache slot is not looked at.
getPrListRunUncached(listing, nodata) == getPrListRemote(listing, nodata)

\* One run of getPrList against the current config: whether it threw, what it
\* returned, the cache slot afterwards and the remote calls it issued.
getPrListRun(listing, nodata) ==
  IF IsDefined(config.prList)
  THEN [threw |-> FALSE, result |-> Get(config.prList),
        prList |-> config.prList, calls |-> <<>>]
  ELSE getPrListRemote(listing, nodata)

getPrList ==
  /\ Idle
  /\ UNCHANGED <<commentVars, iam, callers>>
  /\ \E listing \in ListingsNow :
       \E nodata \in NoDataSets(listing) :
         LET run == getPrListRun(listing, nodata) IN
         /\ config' = [config EXCEPT !.prList = run.prList]
         /\ last' = Returned("getPrList", <<>>, run.threw, run.result, run.calls)
  /\ UNCHANGED <<remotePrs, created>>

\* ------------------------------------------------- overlapping getPrList

\* The invocations of getPrList that may be in flight together.
MaxCallers == 2

Callers == 1..MaxCallers

\* An invocation that has not been made: where it stands (pc), what the
\* listing answered (kind), the ids still to fetch (prIds), the entries
\* collected (fetchedPrs), the remote listings it issued, and how it ended.
NotCalled ==
  [pc |-> "idle", kind |-> "none", prIds |-> <<>>, fetchedPrs |-> <<>>,
   listings |-> 0, threw |-> FALSE, result |-> <<>>]

\* Mutant of getPrListStored: a populated cache slot is left as it is.
getPrListStoredFirst(fetchedPrs) ==
  IF IsDefined(config.prList) THEN config.prList ELSE Some(fetchedPrs)

\* The cache slot after `config.prList = fetchedPrs`.
getPrListStored(fetchedPrs) == Some(fetchedPrs)

\* getPrList up to its first await: the cached list is returned, or the
\* remote listing is issued and the invocation is suspended.
getPrListCalled(p) ==
  /\ callers[p].pc = "idle"
  /\ callers' = [callers EXCEPT ![p] =
       IF IsDefined(config.prList)
       THEN [@ EXCEPT !.pc = "done", !.result = Get(config.prList)]
       ELSE [@ EXCEPT !.pc = "listing", !.listings = 1]]
  /\ UNCHANGED <<config, remotePrs, last, created, commentVars, iam>>

\* getPrList from the answer of the listing to its next await: a rejection
\* ends the invocation, as does a response without an id list; an empty id
\* list is stored at once; otherwise the first fetch is issued.
getPrListListed(p) ==
  /\ callers[p].pc = "listing"
  /\ \E listing \in Listings :
       LET prIds == IF listing.kind = "ids" THEN listing.ids ELSE <<>> IN
       IF listing.kind = "rejects"
       THEN /\ callers' = [callers EXCEPT ![p] =
                 [@ EXCEPT !.pc = "done", !.kind = listing.kind, !.threw = TRUE]]
            /\ UNCHANGED config
       ELSE IF listing.kind = "noIds"
       THEN /\ callers' = [callers EXCEPT ![p] =
                 [@ EXCEPT !.pc = "done", !.kind = listing.kind]]
            /\ UNCHANGED config
       ELSE IF prIds = <<>>
       THEN /\ callers' = [callers EXCEPT ![p] =
                 [@ EXCEPT !.pc = "done", !.kind = listing.kind]]
            /\ config' = [config EXCEPT !.prList = getPrListStored(<<>>)]
       ELSE /\ callers' = [callers EXCEPT ![p] =
                 [@ EXCEPT !.pc = "fetching", !.kind = listing.kind,
                           !.prIds = prIds]]
            /\ UNCHANGED config
  /\ UNCHANGED <<remotePrs, last, created, commentVars, iam>>

\* getPrList from the answer of one client.getPr to its next await, or to
\* its end when that was the last id: the list is stored and returned.
getPrListFetched(p) ==
  /\ callers[p].pc = "fetching"
  /\ \E nodata \in BOOLEAN :
       LET prId == Head(callers[p].prIds)
           prRes == clientGetPr(prId, nodata)
           fetchedPrs == callers[p].fetchedPrs \o
                           (IF IsDefined(prRes)
                            THEN <<getPrListEntry(prId, Get(prRes))>>
                            ELSE <<>>)
           rest == Tail(callers[p].prIds)
       IN
       IF rest # <<>>
       THEN /\ callers' = [callers EXCEPT ![p] =
                 [@ EXCEPT !.prIds = rest, !.fetchedPrs = fetchedPrs]]
            /\ UNCHANGED config
       ELSE /\ callers' = [callers EXCEPT ![p] =
                 [@ EXCEPT !.pc = "done", !.prIds = rest,
                           !.fetchedPrs = fetchedPrs, !.result = fetchedPrs]]
            /\ config' = [config EXCEPT !.prList = getPrListStored(fetchedPrs)]
  /\ UNCHANGED <<remotePrs, last, created, commentVars, iam>>

\* ------------------------------------------------------------------ findPr

\* The switch on the requested state.
findPrStateFilter(prs, state) ==
  IF state = PrStateAll THEN prs
  ELSE IF state = PrStateNotOpen
  THEN SelectSeq(prs, LAMBDA item : item.state # PrStateOpen)
  ELSE SelectSeq(prs, LAMBDA item : item.state = PrStateOpen)

\* The three filters of findPr over the directory, in the code's order.
findPrFilter(prs, branchName, prTitle, state) ==
  LET refsHeadBranchName == getNewBranchName(branchName)
      byBranch == SelectSeq(prs, LAMBDA item : item.sourceBranch = refsHeadBranchName)
      byTitle == IF IsDefined(prTitle)
                 THEN SelectSeq(byBranch, LAMBDA item : item.title = Get(prTitle))
                 ELSE byBranch
  IN findPrStateFilter(byTitle, state)

\* Mutant of findPrFirst: the last match instead of the first.
findPrLast(prsFiltered) ==
  IF Len(prsFiltered) = 0 THEN Undefined ELSE Some(prsFiltered[Len(prsFiltered)])

\* prsFiltered[0], or null.
findPrFirst(prsFiltered) ==
  IF Len(prsFiltered) = 0 THEN Undefined ELSE Some(prsFiltered[1])

\* Mutant of findPrThrew: no try/catch, the listing's error goes through.
findPrPropagates(run) == run.threw

\* Whether findPr throws for one run of getPrList: the try/catch around the
\* listing and the filters logs the error and goes on.
findPrThrew(run) == FALSE

\* What findPr returns for one run of getPrList.
findPrResult(run, branchName, prTitle, state) ==
  findPrFirst(IF run.threw THEN <<>>
              ELSE findPrFilter(run.result, branchName, prTitle, state))

FindBranchInputs == {<<"x">>, <<RefsHeads, "x">>, <<"y">>}
FindTitleInputs == {Undefined, Some("a")}

findPr ==
  /\ Idle
  /\ UNCHANGED <<commentVars, iam, callers>>
  /\ \E branchName \in FindBranchInputs, prTitle \in FindTitleInputs,
        state \in PrStates, listing \in ListingsNow :
       \E nodata \in NoDataSets(listing) :
         LET run == getPrListRun(listing, nodata) IN
         /\ config' = [config EXCEPT !.prList = run.prList]
         /\ last' = Returned("findPr",
                             [branchName |-> branchName, prTitle |-> prTitle,
                              state |-> state],
                             findPrThrew(run),
                             findPrResult(run, branchName, prTitle, state),
                             run.calls)
  /\ UNCHANGED <<remotePrs, created>>

\* ------------------------------------------------------------------- getPr

\* Mutant of getPrRun: a populated cache slot that holds the number answers.
getPrRunCached(pullRequestId, fails) ==
  LET prs == IF IsDefined(config.prList) THEN Get(config.prList) ELSE <<>>
      hits == SelectSeq(prs, LAMBDA item : item.number = pullRequestId)
      prRes == clientGetPr(IdString(pullRequestId), fails)
  IN IF Len(hits) > 0
     THEN [result |-> Some(hits[1]), calls |-> <<>>]
     ELSE [result |-> IF IsDefined(prRes)
                      THEN Some(getPrResult(pullRequestId, Get(prRes)))
                      ELSE Undefined,
           calls |-> <<Call("getPr", pullRequestId, IsDefined(prRes))>>]

\* One run of getPr: the single fetch and the translation of what it returns.
getPrRun(pullRequestId, fails) ==
  LET prRes == clientGetPr(IdString(pullRequestId), fails) IN
  [result |-> IF IsDefined(prRes)
              THEN Some(getPrResult(pullRequestId, Get(prRes)))
              ELSE Undefined,
   calls |-> <<Call("getPr", pullRequestId, IsDefined(prRes))>>]

getPr ==
  /\ Idle
  /\ UNCHANGED <<commentVars, iam, callers>>
  /\ \E pullRequestId \in PrIds, fails \in BOOLEAN :
       LET run == getPrRun(pullRequestId, fails) IN
       last' = Returned("getPr", pullRequestId, FALSE, run.result, run.calls)
  /\ UNCHANGED <<config, remotePrs, created>>

\* ------------------------------------------------------------- getBranchPr

\* Mutant of getBranchPrRun: the directory entry is returned as it is cached.
getBranchPrRunCached(run, branchName, fails) ==
  [result |-> findPrResult(run, branchName, Undefined, PrStateOpen),
   calls |-> run.calls]

\* Mutant of getBranchPrRun: the fetched pull request is returned with the
\* state of its directory entry.
getBranchPrRunStale(run, branchName, fails) ==
  LET existingPr == findPrResult(run, branchName, Undefined, PrStateOpen) IN
  IF IsDefined(existingPr)
  THEN LET fetched == getPrRun(Get(existingPr).number, fails) IN
       [result |-> IF IsDefined(fetched.result)
                   THEN Some([Get(fetched.result) EXCEPT
                                !.state = Get(existingPr).state])
                   ELSE Undefined,
        calls |-> run.calls \o fetched.calls]
  ELSE [result |-> Undefined, calls |-> run.calls]

\* One run of getBranchPr over one run of getPrList: findPr for the branch
\* with state open, then getPr of the number found, or null.
getBranchPrRun(run, branchName, fails) ==
  LET existingPr == findPrResult(run, branchName, Undefined, PrStateOpen) IN
  IF IsDefined(existingPr)
  THEN [result |-> getPrRun(Get(existingPr).number, fails).result,
        calls |-> run.calls \o getPrRun(Get(existingPr).number, fails).calls]
  ELSE [result |-> Undefined, calls |-> run.calls]

getBranchPr ==
  /\ Idle
  /\ UNCHANGED <<commentVars, iam, callers>>
  /\ \E branchName \in FindBranchInputs, listing \in ListingsNow :
       \E nodata \in NoDataSets(listing) :
         LET run == getPrListRun(listing, nodata)
             existingPr == findPrResult(run, branchName, Undefined, PrStateOpen)
         IN \E fails \in (IF IsDefined(existingPr) THEN BOOLEAN ELSE {FALSE}) :
              LET branchRun == getBranchPrRun(run, branchName, fails) IN
              /\ config' = [config EXCEPT !.prList = run.prList]
              /\ last' = Returned("getBranchPr", branchName, findPrThrew(run),
                                  branchRun.result, branchRun.calls)
  /\ UNCHANGED <<remotePrs, created>>

\* ---------------------------------------------------------------- createPr

\* The pull request the remote stores for a CreatePullRequest call.
remoteNewPr(title, sourceBranch) ==
  [ title |-> title,
    pullRequestStatus |-> StatusOPEN,
    sourceReference |-> getNewBranchName(sourceBranch),
    destinationReference |-> TargetRef,
    isMerged |-> FALSE ]

CreateOutcomes == {"rejects", "missingInfo", "created"}

\* Mutant of createPrConfig: the new Pr is pushed onto a populated cache.
createPrConfigPushed(pr) ==
  IF IsDefined(config.prList)
  THEN [config EXCEPT !.prList = Some(Append(Get(config.prList), pr))]
  ELSE config

\* The config after createPr has built its result: createPr writes nothing
\* to it.
createPrConfig(pr) == config

createPr ==
  /\ Idle
  /\ UNCHANGED <<commentVars, iam, callers>>
  /\ \E sourceBranch \in BranchNames, title \in Titles, outcome \in CreateOutcomes :
       LET prId == IdString(Len(remotePrs) + 1)
           args == [sourceBranch |-> sourceBranch, prTitle |-> title]
           calls == <<Call("createPr", 0, outcome # "rejects")>>
           pr == [ number |-> ParseInt(prId),
                   state |-> PrStateOpen,
                   title |-> title,
                   sourceBranch |-> sourceBranch,
                   targetBranch |-> TargetRef ]
       IN
       /\ outcome = "created" => Len(remotePrs) < MaxPrId
       /\ IF outcome = "created"
          THEN /\ remotePrs' = Append(remotePrs, remoteNewPr(title, sourceBranch))
               /\ last' = Returned("createPr", args, FALSE, Some(pr), calls)
               /\ config' = createPrConfig(pr)
               /\ created' = created \cup
                     {[number |-> ParseInt(prId),
                       cached |-> IsDefined(config.prList)]}
          ELSE /\ remotePrs' = remotePrs
               /\ last' = Returned("createPr", args, TRUE, Undefined, calls)
               /\ UNCHANGED <<config, created>>

\* ---------------------------------------------------------------- updatePr

\* Mutant of updatePrStatusInput: OPEN is asked for only when the requested
\* state is open.
updatePrStatusInputOpenOnly(state) ==
  IF state = Some(PrStateOpen) THEN StatusOPEN ELSE StatusCLOSED

\* The status updatePr asks for.
updatePrStatusInput(state) ==
  IF state = Some(PrStateClosed) THEN StatusCLOSED ELSE StatusOPEN

StatusCall(prNo, status, ok) ==
  [api |-> "updatePrStatus", arg |-> prNo, ok |-> ok, status |-> status]

UpdateTitles == {Undefined, Some("b")}
UpdateStates == {Undefined, Some(PrStateOpen), Some(PrStateClosed)}

\* Which remote call of an updatePr is rejected, given what it will issue.
UpdateFailures(title, body) ==
  {"none", "status"} \cup (IF body THEN {"description"} ELSE {})
                     \cup (IF IsDefined(title) THEN {"title"} ELSE {})

\* Mutant of updatePrStatusThrew: the rejection of the status update goes
\* through.
updatePrStatusPropagates(failure) == failure = "status"

\* Whether updatePr throws for the outcome of its status update: the
\* try/catch around client.updatePrStatus does nothing with the error.
updatePrStatusThrew(failure) == FALSE

updatePr ==
  /\ Idle
  /\ UNCHANGED <<commentVars, iam, callers>>
  /\ \E prNo \in 1..Len(remotePrs), title \in UpdateTitles, body \in BOOLEAN,
        state \in UpdateStates :
       \E failure \in UpdateFailures(title, body) :
         LET prStatusInput == updatePrStatusInput(state)
             descCalls == IF body
                          THEN <<Call("updatePrDescription", prNo,
                                      failure # "description")>>
                          ELSE <<>>
             titleCalls == IF IsDefined(title)
                           THEN <<Call("updatePrTitle", prNo, failure # "title")>>
                           ELSE <<>>
             args == [number |-> prNo, prTitle |-> title, prBody |-> body,
                      state |-> state]
         IN
         IF failure = "description"
         THEN /\ last' = Returned("updatePr", args, TRUE, Undefined, descCalls)
              /\ UNCHANGED remotePrs
         ELSE IF failure = "title"
         THEN /\ last' = Returned("updatePr", args, TRUE, Undefined,
                                  descCalls \o titleCalls)
              /\ UNCHANGED remotePrs
         ELSE /\ last' = Returned("updatePr", args, updatePrStatusThrew(failure),
                                  Undefined,
                                  descCalls \o titleCalls
                                    \o <<StatusCall(prNo, prStatusInput,
                                                    failure # "status")>>)
              /\ remotePrs' =
                   [remotePrs EXCEPT
                      ![prNo].title = IF IsDefined(title) THEN Get(title) ELSE @,
                      ![prNo].pullRequestStatus =
                         IF failure = "status" THEN @ ELSE prStatusInput]
  /\ UNCHANGED <<config, created>>

\* ----------------------------------------------------------------- mergePr

Strategies == {"auto", "squash", "fast-forward", "rebase", "merge-commit"}

\* What the GetPullRequest of mergePr can answer.
MergeFetches == {"undefined", "noTargets", "found"}

\* Mutant of mergePrConfig: a successful merge empties the cache slot.
mergePrConfigInvalidated(merged) ==
  IF merged THEN [config EXCEPT !.prList = Undefined] ELSE config

\* The config after mergePr: mergePr writes nothing to it, merged or not.
mergePrConfig(merged) == config

\* Mutant of mergePrStrategyCall: rebase is handed to the fast-forward merge.
mergePrStrategyCallRebaseForward(strategy) ==
  IF strategy \in {"auto", "squash"} THEN Some("squashMerge")
  ELSE IF strategy \in {"fast-forward", "rebase"} THEN Some("fastForwardMerge")
  ELSE Undefined

\* Mutant of mergePrStrategyCall: squash and fast-forward are exchanged.
mergePrStrategyCallSwapped(strategy) ==
  IF strategy = "rebase" THEN Undefined
  ELSE IF strategy \in {"auto", "squash"} THEN Some("fastForwardMerge")
  ELSE IF strategy = "fast-forward" THEN Some("squashMerge")
  ELSE Undefined

\* The merge call a strategy is dispatched to, past the fetch: none for
\* rebase (refused first) and for every strategy that is neither auto,
\* squash nor fast-forward.
mergePrStrategyCall(strategy) ==
  IF strategy = "rebase" THEN Undefined
  ELSE IF strategy \in {"auto", "squash"} THEN Some("squashMerge")
  ELSE IF strategy = "fast-forward" THEN Some("fastForwardMerge")
  ELSE Undefined

\* Mutant of mergePrTargets: a response is taken to carry merge targets.
mergePrTargetsAssumed(fetch) == fetch # "undefined"

\* Whether mergePr goes past its two early returns: the fetch brought a
\* response (prOut) and its pull request carries merge targets.
mergePrTargets(fetch) == fetch = "found"

\* Mutant of mergePrClosed: the result is whether the close reported CLOSED.
mergePrClosedOnly(outcome) == outcome = StatusCLOSED

\* What mergePr returns after its close call: true when the call was
\* answered, whatever status it reports, false when it was rejected.
mergePrClosed(outcome) == outcome # "closeRejects"

\* What follows the fetch: the merge call is rejected, the close call is
\* rejected, or both succeed and the close reports a status.
MergeOutcomes(fetch, strategy) ==
  IF mergePrTargets(fetch) /\ IsDefined(mergePrStrategyCall(strategy))
  THEN {"mergeRejects", "closeRejects", StatusCLOSED, StatusOPEN}
  ELSE {"none"}

\* The GetPullRequest call of mergePr in the log: whether it brought a
\* response, and whether the response carries merge targets.
MergeFetchCall(prNo, ok, targets) ==
  [api |-> "getPr", arg |-> prNo, ok |-> ok, targets |-> targets]

\* Mutant of mergePrCalls: the close call is issued whatever the merge did.
mergePrCallsCloseAnyway(getCall, mergeCall, closeCall, outcome) ==
  getCall \o mergeCall \o closeCall

\* Mutant of mergePrCalls: the pull request is closed before it is merged.
mergePrCallsCloseFirst(getCall, mergeCall, closeCall, outcome) ==
  IF outcome = "mergeRejects" THEN getCall \o mergeCall
  ELSE getCall \o closeCall \o mergeCall

\* The remote calls of a mergePr that reached its merge call: a rejected
\* merge is caught and ends the invocation, an answered one is followed by
\* the close call.
mergePrCalls(getCall, mergeCall, closeCall, outcome) ==
  IF outcome = "mergeRejects" THEN getCall \o mergeCall
  ELSE getCall \o mergeCall \o closeCall

mergePr ==
  /\ Idle
  /\ UNCHANGED <<commentVars, iam, callers>>
  /\ \E prNo \in 1..Len(remotePrs), strategy \in Strategies, fetch \in MergeFetches :
       \E outcome \in MergeOutcomes(fetch, strategy) :
         LET args == [id |-> prNo, strategy |-> strategy]
             prOut == clientGetPr(IdString(prNo), fetch = "undefined")
             getCall == <<MergeFetchCall(prNo, IsDefined(prOut), fetch = "found")>>
             merge == mergePrStrategyCall(strategy)
             mergeCall == <<Call(Get(merge), prNo, outcome # "mergeRejects")>>
             closeCall == <<StatusCall(prNo, StatusCLOSED,
                                       outcome # "closeRejects")>>
         IN
         IF ~mergePrTargets(fetch)
         THEN /\ last' = Returned("mergePr", args, FALSE, FALSE, getCall)
              /\ UNCHANGED remotePrs
         ELSE IF ~IsDefined(merge)
         THEN /\ last' = Returned("mergePr", args, FALSE, FALSE, getCall)
              /\ UNCHANGED remotePrs
         ELSE IF outcome = "mergeRejects"
         THEN /\ last' = Returned("mergePr", args, FALSE, FALSE,
                                  mergePrCalls(getCall, mergeCall, closeCall, outcome))
              /\ UNCHANGED remotePrs
         ELSE IF outcome = "closeRejects"
         THEN /\ last' = Returned("mergePr", args, FALSE, mergePrClosed(outcome),
                                  mergePrCalls(getCall, mergeCall, closeCall, outcome))
              /\ remotePrs' = [remotePrs EXCEPT ![prNo].isMerged = TRUE]
         ELSE /\ last' = Returned("mergePr", args, FALSE, mergePrClosed(outcome),
                                  mergePrCalls(getCall, mergeCall, closeCall, outcome))
              /\ remotePrs' = [remotePrs EXCEPT ![prNo].isMerged = TRUE,
                                                ![prNo].pullRequestStatus = outcome]
  /\ config' = mergePrConfig(last'.result)
  /\ UNCHANGED created

\* ---------------------------------------------------------------- comments

\* The topics and contents the orchestrator reconciles.
Topics == {Undefined, Some("t")}
Contents == {<<"c1">>, <<"secret", "block">>}

\* The bytes of the pieces strings are made of; "block" stands for a run of
\* ContentBudget bytes of text.
TokenBytes(token) ==
  CASE token = "block" -> ContentBudget
    [] token = "**redacted**" -> 12
    [] token = "secret" -> 6
    [] token = "### " -> 4
    [] token \in {"c1", "\n\n"} -> 2
    [] OTHER -> 1

\* The length of a string in bytes.
RECURSIVE ByteLength(_)
ByteLength(str) ==
  IF str = <<>> THEN 0 ELSE TokenBytes(Head(str)) + ByteLength(Tail(str))

\* sanitize of util/sanitize: every secret is replaced by the redaction mark.
sanitize(content) ==
  [i \in DOMAIN content |->
     IF content[i] = "secret" THEN "**redacted**" ELSE content[i]]

\* `### ${topic}\n\n`.
TopicHeader(topic) == <<"### ", topic, "\n\n">>

\* const header = topic ? `### ${topic}\n\n` : ''.
ensureCommentHeader(topic) ==
  IF IsDefined(topic) THEN TopicHeader(Get(topic)) ELSE <<>>

\* const body = `${header}${sanitize(content)}`.
ensureCommentBody(topic, content) == ensureCommentHeader(topic) \o sanitize(content)

\* String.prototype.startsWith.
StartsWith(str, prefix) ==
  Len(str) >= Len(prefix) /\ SubSeq(str, 1, Len(prefix)) = prefix

Whitespace == {" ", "\n\n"}

\* String.prototype.trim.
RECURSIVE Trim(_)
Trim(str) ==
  IF str = <<>> THEN str
  ELSE IF Head(str) \in Whitespace THEN Trim(Tail(str))
  ELSE IF str[Len(str)] \in Whitespace THEN Trim(SubSeq(str, 1, Len(str) - 1))
  ELSE str

\* A comment of the remote store; content is undefined once it is deleted.
Comment(commentId, content) == [commentId |-> commentId, content |-> content]

\* A thread of the remote store (one element of commentsForPullRequestData).
Thread(comments) == [comments |-> comments]

\* The number of comments and comment-less threads of all streams.
RECURSIVE StreamSize(_)
StreamSize(data) ==
  IF data = <<>> THEN 0
  ELSE (IF IsDefined(Head(data).comments) THEN Len(Get(Head(data).comments)) ELSE 1)
       + StreamSize(Tail(data))

RECURSIVE StoreSize(_)
StoreSize(ns) ==
  IF ns = {} THEN 0
  ELSE LET n == CHOOSE m \in ns : TRUE IN StreamSize(threads[n]) + StoreSize(ns \ {n})

\* The id the remote gives to the next comment.
NextCommentId == StoreSize(PrIds) + 1

\* What client.getPrComments can answer: a rejection, a response without
\* commentsForPullRequestData, or the threads of the pull request.
Retrievals == {"rejects", "undefined", "data"}

\* The calls of ensureComment and ensureCommentRemoval in the log: the pull
\* request or the comment they name, and whether the call was answered (ok)
\* or rejected.
CommentCall(api, arg, ok) == [api |-> api, arg |-> arg, ok |-> ok]

\* The client.getPrComments call in the log: whether it was answered, and
\* whether the answer carries the thread list.
RetrievalCall(number, retrieval) ==
  [api |-> "getPrComments", arg |-> number, ok |-> retrieval # "rejects",
   data |-> retrieval = "data"]

\* The client.getPrEvents call in the log: whether it was answered, and
\* whether the answer's first event carries the before and after commit ids.
EventCall(number, events) ==
  [api |-> "getPrEvents", arg |-> number, ok |-> events # "rejects",
   anchor |-> events = "found"]

\* Mutant of retrievalThrew: the rejection of the retrieval goes through.
retrievalPropagates(retrieval) == retrieval = "rejects"

\* Whether a comment operation throws for a retrieval: the try/catch around
\* client.getPrComments logs the error and returns.
retrievalThrew(retrieval) == FALSE

\* ----------------------------------------------------------- ensureComment

\* Mutant of ensureCommentMatches: with a topic the root has to be the header
\* and nothing more.
ensureCommentMatchesHeaderOnly(topic, body, firstCommentContent) ==
  \/ /\ IsDefined(topic)
     /\ firstCommentContent = Some(ensureCommentHeader(topic))
  \/ /\ ~IsDefined(topic)
     /\ firstCommentContent = Some(body)

\* Mutant of ensureCommentMatches: without a topic, a root that carries no
\* topic header matches whatever its content.
ensureCommentMatchesUntopiced(topic, body, firstCommentContent) ==
  \/ /\ IsDefined(topic)
     /\ IsDefined(firstCommentContent)
     /\ StartsWith(Get(firstCommentContent), ensureCommentHeader(topic))
  \/ /\ ~IsDefined(topic)
     /\ IsDefined(firstCommentContent)
     /\ ~StartsWith(Get(firstCommentContent), <<"### ">>)

\* The match condition of ensureComment on the content of a thread's first
\* comment.
ensureCommentMatches(topic, body, firstCommentContent) ==
  \/ /\ IsDefined(topic)
     /\ IsDefined(firstCommentContent)
     /\ StartsWith(Get(firstCommentContent), ensureCommentHeader(topic))
  \/ /\ ~IsDefined(topic)
     /\ firstCommentContent = Some(body)

NoMatch == [commentId |-> Undefined, commentNeedsUpdating |-> FALSE]

\* Mutant of ensureCommentScan: the last matching thread is selected.
RECURSIVE ensureCommentScanLast(_, _, _)
ensureCommentScanLast(data, topic, body) ==
  IF data = <<>> THEN NoMatch
  ELSE LET commentObj == data[Len(data)]
           rest == SubSeq(data, 1, Len(data) - 1)
       IN IF ~IsDefined(commentObj.comments)
          THEN ensureCommentScanLast(rest, topic, body)
          ELSE LET first == Get(commentObj.comments)[1] IN
               IF ensureCommentMatches(topic, body, first.content)
               THEN [commentId |-> Some(first.commentId),
                     commentNeedsUpdating |-> first.content # Some(body)]
               ELSE ensureCommentScanLast(rest, topic, body)

\* The loop of ensureComment over the threads: commentId and
\* commentNeedsUpdating when it ends.
RECURSIVE ensureCommentScan(_, _, _)
ensureCommentScan(data, topic, body) ==
  IF data = <<>> THEN NoMatch
  ELSE LET commentObj == Head(data) IN
       IF ~IsDefined(commentObj.comments)
       THEN ensureCommentScan(Tail(data), topic, body)
       ELSE LET first == Get(commentObj.comments)[1] IN
            IF ensureCommentMatches(topic, body, first.content)
            THEN [commentId |-> Some(first.commentId),
                  commentNeedsUpdating |-> first.content # Some(body)]
            ELSE ensureCommentScan(Tail(data), topic, body)

\* What client.getPrEvents can answer: a rejection, no response, a response
\* without pullRequestEvents, an empty event list, a first event without the
\* source-reference-updated commit ids, or one with them.
EventLookups == {"rejects", "undefined", "noEvents", "empty", "noMetadata", "found"}

\* What the mutating call (create, update, delete) can do.
Mutations == {"rejects", "done"}

\* The remote store after a comment is posted on a pull request: a new
\* thread at the end of its stream.
remotePostComment(number, content) ==
  [threads EXCEPT ![number] =
     Append(@, Thread(Some(<<Comment(NextCommentId, Some(content))>>)))]

\* The remote store after the content of a comment is set (undefined: the
\* content is deleted).
remoteSetContent(commentId, content) ==
  [n \in PrIds |->
     [t \in DOMAIN threads[n] |->
        IF IsDefined(threads[n][t].comments)
        THEN Thread(Some([c \in DOMAIN Get(threads[n][t].comments) |->
               IF Get(threads[n][t].comments)[c].commentId = commentId
               THEN Comment(commentId, content)
               ELSE Get(threads[n][t].comments)[c]]))
        ELSE threads[n][t]]]

\* The inputs that matter to one ensureComment: the event lookup only when
\* nothing matches, the mutating call only when one is issued.
EnsureEventLookups(retrieval, match) ==
  IF retrieval = "data" /\ ~IsDefined(match.commentId)
  THEN EventLookups ELSE {"found"}

EnsureMutations(retrieval, match, events) ==
  IF retrieval = "data" /\
     ((~IsDefined(match.commentId) /\ events = "found") \/
      (IsDefined(match.commentId) /\ match.commentNeedsUpdating))
  THEN Mutations ELSE {"done"}

ensureComment ==
  /\ Idle
  /\ \E number \in PrIds, topic \in Topics, content \in Contents,
        retrieval \in Retrievals :
       LET body == ensureCommentBody(topic, content)
           match == ensureCommentScan(threads[number], topic, body)
           args == [number |-> number, topic |-> topic, content |-> content]
           listCall == <<RetrievalCall(number, retrieval)>>
           createCall(ok) == <<[api |-> "createPrComment", arg |-> number,
                                ok |-> ok, body |-> body]>>
           updateCall(ok) == <<[api |-> "updateComment", arg |-> Get(match.commentId),
                                ok |-> ok, body |-> body]>>
       IN
       \E events \in EnsureEventLookups(retrieval, match) :
         \E mutation \in EnsureMutations(retrieval, match, events) :
           /\ (retrieval = "data" /\ ~IsDefined(match.commentId)
                 /\ events = "found" /\ mutation = "done")
                => StoreSize(PrIds) < MaxComments
           /\ IF retrieval # "data"
              THEN /\ last' = Returned("ensureComment", args,
                                       retrievalThrew(retrieval), FALSE, listCall)
                   /\ UNCHANGED threads
              ELSE IF ~IsDefined(match.commentId)
              THEN IF events \in {"rejects", "empty"}
                   THEN /\ last' = Returned("ensureComment", args, TRUE, Undefined,
                                            listCall \o <<EventCall(number, events)>>)
                        /\ UNCHANGED threads
                   ELSE IF events # "found"
                   THEN /\ last' = Returned("ensureComment", args, FALSE, FALSE,
                                            listCall \o <<EventCall(number, events)>>)
                        /\ UNCHANGED threads
                   ELSE IF mutation = "rejects"
                   THEN /\ last' = Returned("ensureComment", args, TRUE, Undefined,
                                            listCall \o <<EventCall(number, events)>>
                                              \o createCall(FALSE))
                        /\ UNCHANGED threads
                   ELSE /\ last' = Returned("ensureComment", args, FALSE, TRUE,
                                            listCall \o <<EventCall(number, events)>>
                                              \o createCall(TRUE))
                        /\ threads' = remotePostComment(number, body)
              ELSE IF match.commentNeedsUpdating
              THEN IF mutation = "rejects"
                   THEN /\ last' = Returned("ensureComment", args, TRUE, Undefined,
                                            listCall \o updateCall(FALSE))
                        /\ UNCHANGED threads
                   ELSE /\ last' = Returned("ensureComment", args, FALSE, TRUE,
                                            listCall \o updateCall(TRUE))
                        /\ threads' = remoteSetContent(Get(match.commentId), Some(body))
              ELSE /\ last' = Returned("ensureComment", args, FALSE, TRUE, listCall)
                   /\ UNCHANGED threads
  /\ UNCHANGED <<config, remotePrs, created, prev, iam, callers>>

\* ---------------------------------------------------- ensureCommentRemoval

\* The removal keys the orchestrator uses.
RemovalKeys ==
  { [type |-> "by-topic", topic |-> Some("t"), content |-> Undefined],
    [type |-> "by-content", topic |-> Undefined, content |-> Some(<<"c1">>)] }

\* The match condition of ensureCommentRemoval on one comment.
ensureCommentRemovalMatches(removeConfig, comment) ==
  \/ /\ removeConfig.type = "by-topic"
     /\ IsDefined(comment.content)
     /\ StartsWith(Get(comment.content), TopicHeader(Get(removeConfig.topic)))
  \/ /\ removeConfig.type = "by-content"
     /\ IsDefined(comment.content)
     /\ Get(removeConfig.content) = Trim(Get(comment.content))

\* Mutant of ensureCommentRemovalScan: every matching comment is deleted.
RECURSIVE ensureCommentRemovalScanAll(_, _)
ensureCommentRemovalScanAll(data, removeConfig) ==
  IF data = <<>> THEN <<>>
  ELSE LET commentObj == Head(data)
           matching == IF IsDefined(commentObj.comments)
                       THEN SelectSeq(Get(commentObj.comments),
                              LAMBDA comment :
                                ensureCommentRemovalMatches(removeConfig, comment))
                       ELSE <<>>
       IN [i \in DOMAIN matching |-> matching[i].commentId]
          \o ensureCommentRemovalScanAll(Tail(data), removeConfig)

\* The loops of ensureCommentRemoval over the threads and their comments: the
\* ids it asks the remote to delete, in order (one at most: the scan stops at
\* the first thread that holds a match, on the first match of that thread).
RECURSIVE ensureCommentRemovalScan(_, _)
ensureCommentRemovalScan(data, removeConfig) ==
  IF data = <<>> THEN <<>>
  ELSE LET commentObj == Head(data)
           matching == IF IsDefined(commentObj.comments)
                       THEN SelectSeq(Get(commentObj.comments),
                              LAMBDA comment :
                                ensureCommentRemovalMatches(removeConfig, comment))
                       ELSE <<>>
       IN IF matching # <<>>
          THEN <<matching[1].commentId>>
          ELSE ensureCommentRemovalScan(Tail(data), removeConfig)

\* The remote store after the deletions that were answered.
RECURSIVE remoteDeleteAll(_, _)
remoteDeleteAll(store, commentIds) ==
  IF commentIds = <<>> THEN store
  ELSE remoteDeleteAll(
         [n \in PrIds |->
            [t \in DOMAIN store[n] |->
               IF IsDefined(store[n][t].comments)
               THEN Thread(Some([c \in DOMAIN Get(store[n][t].comments) |->
                      IF Get(store[n][t].comments)[c].commentId = Head(commentIds)
                      THEN Comment(Head(commentIds), Undefined)
                      ELSE Get(store[n][t].comments)[c]]))
               ELSE store[n][t]]],
         Tail(commentIds))

ensureCommentRemoval ==
  /\ Idle
  /\ \E prNo \in PrIds, key \in RemovalKeys, retrieval \in Retrievals :
       LET removeConfig == [number |-> prNo, type |-> key.type,
                            topic |-> key.topic, content |-> key.content]
           listCall == <<RetrievalCall(prNo, retrieval)>>
           toRemove == IF retrieval = "data"
                       THEN ensureCommentRemovalScan(threads[prNo], removeConfig)
                       ELSE <<>>
       IN
       \E mutation \in (IF toRemove = <<>> THEN {"done"} ELSE Mutations) :
         IF retrieval # "data"
         THEN /\ last' = Returned("ensureCommentRemoval", removeConfig,
                                  retrievalThrew(retrieval), Undefined, listCall)
              /\ UNCHANGED threads
         ELSE IF mutation = "rejects"
         THEN /\ last' = Returned("ensureCommentRemoval", removeConfig, TRUE,
                                  Undefined,
                                  listCall \o <<CommentCall("deleteComment",
                                                            toRemove[1], FALSE)>>)
              /\ UNCHANGED threads
         ELSE /\ last' = Returned("ensureCommentRemoval", removeConfig, FALSE,
                                  Undefined,
                                  listCall \o [i \in DOMAIN toRemove |->
                                     CommentCall("deleteComment", toRemove[i], TRUE)])
              /\ threads' = remoteDeleteAll(threads, toRemove)
  /\ UNCHANGED <<config, remotePrs, created, prev, iam, callers>>

\* ------------------------------------------------------------ initPlatform

\* What the caller passes and what process.env holds.
Endpoints ==
  {Undefined, Some(<<"https://git-codecommit.", "R1", ".amazonaws.com/">>),
   Some(<<"endpoint">>)}
Usernames == {Undefined, Some(""), Some("abc")}
Passwords == {Undefined, Some("123")}
Environments ==
  [AWS_ACCESS_KEY_ID : {Undefined, Some("envKey")},
   AWS_SECRET_ACCESS_KEY : {Undefined, Some("envSecret")},
   AWS_REGION : {Undefined, Some("R2")}]

\* A value that `!value` does not reject: defined and not the empty string.
Truthy(value) == IsDefined(value) /\ Get(value) # ""

\* regionReg.exec(endpoint)?.groups?.region for
\* /.*codecommit\.(?<region>.+)\.amazonaws\.com/.
parseRegion(endpoint) ==
  IF /\ Len(endpoint) = 3
     /\ endpoint[1] = "https://git-codecommit."
     /\ endpoint[3] = ".amazonaws.com/"
  THEN Some(endpoint[2])
  ELSE Undefined

\* `https://git-codecommit.${region}.amazonaws.com/`.
regionEndpoint(region) == <<"https://git-codecommit.", region, ".amazonaws.com/">>

\* The region initPlatform works with: parsed from the endpoint when one is
\* given, AWS_REGION of the environment otherwise.
initPlatformRegion(endpoint, env) ==
  IF IsDefined(endpoint) /\ Get(endpoint) # <<>>
  THEN parseRegion(Get(endpoint))
  ELSE env.AWS_REGION

InitError == "Init: You must configure a AWS user(accessKeyId), password(secretAccessKey) and endpoint/AWS_REGION"

\* Mutant of initIamClient: every call builds a new client.
initIamClientRebuilt(region, credentials) ==
  Some([region |-> region, credentials |-> credentials])

\* initIamClient: the client is built on the first call only.
initIamClient(region, credentials) ==
  IF IsDefined(iam) THEN iam
  ELSE Some([region |-> region, credentials |-> credentials])

\* What iam.send(GetUserCommand) can do: answer with the user's ARN, answer
\* without a user, be rejected with a message that names the user, or be
\* rejected otherwise.
UserLookups == {"arn", "noUser", "deniedWithArn", "rejects"}

UserArn == "arn:aws:iam::1:user/u"

\* The messages of the errors iam.send is rejected with.
DeniedMessage ==
  <<"User:", " ", UserArn, " ", "is not authorized to perform: iam:GetUser">>

TimeoutMessage == <<"connect", " ", "ETIMEDOUT">>

\* The outcome of iam.send(GetUserCommand): whether it was rejected, the
\* User.Arn of the response, and the name and message of the error.
iamGetUser(lookup) ==
  IF lookup = "arn"
  THEN [rejected |-> FALSE, arn |-> Some(UserArn), name |-> "", message |-> <<>>]
  ELSE IF lookup = "noUser"
  THEN [rejected |-> FALSE, arn |-> Undefined, name |-> "", message |-> <<>>]
  ELSE IF lookup = "deniedWithArn"
  THEN [rejected |-> TRUE, arn |-> Undefined, name |-> "AccessDenied",
        message |-> DeniedMessage]
  ELSE [rejected |-> TRUE, arn |-> Undefined, name |-> "TimeoutError",
        message |-> TimeoutMessage]

\* userRe.exec(message)?.groups?.arn for /User:\s*(?<arn>[^ ]+).*/: the first
\* token that is not a blank after the first "User:" that has one.
userReExec(message) ==
  LET starts == { i \in DOMAIN message :
                    /\ message[i] = "User:"
                    /\ \E j \in (i + 1)..Len(message) : message[j] # " " }
  IN IF starts = {} THEN Undefined
     ELSE LET i == CHOOSE k \in starts : \A l \in starts : k <= l
              j == CHOOSE k \in (i + 1)..Len(message) :
                     /\ message[k] # " "
                     /\ \A l \in (i + 1)..(k - 1) : message[l] = " "
          IN Some(message[j])

\* Mutant of getUserArn: every rejection is rethrown.
getUserArnStrict(lookup) ==
  LET userRes == iamGetUser(lookup) IN
  IF userRes.rejected
  THEN [threw |-> TRUE, result |-> userRes.name]
  ELSE [threw |-> FALSE,
        result |-> IF IsDefined(userRes.arn) THEN Get(userRes.arn) ELSE ""]

\* getUserArn: the ARN of the answer or of the error message, the empty
\* string for an answer without one, the error itself otherwise.
getUserArn(lookup) ==
  LET userRes == iamGetUser(lookup)
      res == IF userRes.rejected THEN userReExec(userRes.message)
             ELSE userRes.arn
  IN IF userRes.rejected /\ ~Truthy(res)
     THEN [threw |-> TRUE, result |-> userRes.name]
     ELSE [threw |-> FALSE, result |-> IF IsDefined(res) THEN Get(res) ELSE ""]

\* The iam.send call in the log: what it answered and the client it was sent
\* through.
UserLookupCall(lookup, client) ==
  [api |-> "iam.getUser", arg |-> 0, ok |-> ~iamGetUser(lookup).rejected,
   answer |-> lookup, client |-> client]

initPlatform ==
  /\ Idle
  /\ \E endpoint \in Endpoints, username \in Usernames, password \in Passwords,
        env \in Environments :
       LET accessKeyId == IF Truthy(username) THEN username
                          ELSE env.AWS_ACCESS_KEY_ID
           secretAccessKey == IF Truthy(password) THEN password
                              ELSE env.AWS_SECRET_ACCESS_KEY
           region == initPlatformRegion(endpoint, env)
           args == [endpoint |-> endpoint, username |-> username,
                    password |-> password, env |-> env]
       IN
       IF ~Truthy(accessKeyId) \/ ~Truthy(secretAccessKey) \/ ~Truthy(region)
       THEN /\ last' = Returned("initPlatform", args, TRUE, InitError, <<>>)
            /\ UNCHANGED <<config, iam>>
       ELSE \E lookup \in UserLookups :
              LET credentials == [accessKeyId |-> Get(accessKeyId),
                                  secretAccessKey |-> Get(secretAccessKey)]
                  arn == getUserArn(lookup)
                  client == initIamClient(Get(region), credentials)
                  calls == <<UserLookupCall(lookup, Get(client))>>
              IN /\ iam' = client
                 /\ IF arn.threw
                    THEN /\ config' = [config EXCEPT
                                         !.region = region,
                                         !.credentials = Some(credentials)]
                         /\ last' = Returned("initPlatform", args, TRUE,
                                             arn.result, calls)
                    ELSE /\ config' = [config EXCEPT
                                         !.region = region,
                                         !.credentials = Some(credentials),
                                         !.userArn = Some(arn.result)]
                         /\ last' = Returned("initPlatform", args, FALSE,
                                             [endpoint |->
                                                IF IsDefined(endpoint)
                                                THEN Get(endpoint)
                                                ELSE regionEndpoint(Get(region))],
                                             calls)
  /\ UNCHANGED <<remotePrs, created, commentVars, callers>>

\* ---------------------------------------------------------------- initRepo

RepoLookups == {"rejects", "undefined", "noMetadata", "empty", "found"}

\* The client.getRepositoryInfo call in the log, with what it answered.
RepoLookupCall(lookup) ==
  [api |-> "getRepositoryInfo", arg |-> 0, ok |-> lookup # "rejects",
   answer |-> lookup]

\* The default branch the remote reports for a repository.
remoteDefaultBranch(repository) ==
  IF repository = "repoA" THEN "main" ELSE "trunk"

\* Mutant of initRepoFailedConfig: a failed initRepo leaves the config as it
\* found it.
initRepoFailedConfigRestored(repository) == config

\* The config when initRepo throws: the repository has been assigned, nothing
\* else.
initRepoFailedConfig(repository) ==
  [config EXCEPT !.repository = Some(repository)]

initRepo ==
  /\ Idle
  /\ UNCHANGED <<commentVars, iam, callers>>
  /\ \E repository \in Repositories, lookup \in RepoLookups, gitFails \in BOOLEAN :
       LET lookupCall == <<RepoLookupCall(lookup)>>
           gitCall == <<Call("git.initRepo", 0, ~gitFails)>>
           error == IF lookup = "rejects" THEN "REPOSITORY_NOT_FOUND"
                    ELSE IF gitFails THEN "PLATFORM_BAD_CREDENTIALS"
                    ELSE IF lookup \in {"undefined", "noMetadata"}
                    THEN "REPOSITORY_NOT_FOUND"
                    ELSE IF lookup = "empty" THEN "REPOSITORY_EMPTY"
                    ELSE "none"
           calls == IF lookup = "rejects" THEN lookupCall ELSE lookupCall \o gitCall
       IN
       /\ lookup = "rejects" => ~gitFails
       /\ IF error # "none"
          THEN /\ config' = initRepoFailedConfig(repository)
               /\ last' = Returned("initRepo", repository, TRUE, error, calls)
          ELSE /\ config' = [config EXCEPT
                               !.repository = Some(repository),
                               !.defaultBranch = Some(remoteDefaultBranch(repository))]
               /\ last' = Returned("initRepo", repository, FALSE,
                                   [defaultBranch |-> remoteDefaultBranch(repository),
                                    isFork |-> FALSE],
                                   calls)
  /\ UNCHANGED <<remotePrs, created>>

\* ------------------------------------------------------- outside the adapter

\* The reset of the exported config between sessions (the test harness's
\* beforeEach).
resetConfig ==
  /\ Idle
  /\ UNCHANGED <<commentVars, iam, callers>>
  /\ config' = [config EXCEPT !.prList = Undefined, !.repository = Undefined]
  /\ last' = Returned("resetConfig", <<>>, FALSE, Undefined, <<>>)
  /\ created' = {}
  /\ UNCHANGED remotePrs

\* Another actor (the console, a reviewer) closes, reopens or merges a pull
\* request remotely; a merge is never undone.
remoteChange ==
  /\ Idle
  /\ UNCHANGED <<commentVars, iam, callers>>
  /\ \E prNo \in 1..Len(remotePrs), status \in RawStatuses, merged \in BOOLEAN :
       /\ remotePrs[prNo].isMerged => merged
       /\ remotePrs' = [remotePrs EXCEPT ![prNo].pullRequestStatus = status,
                                         ![prNo].isMerged = merged]
  /\ UNCHANGED <<config, last, created>>

\* What other actors write into the comment streams.
RemoteContents == {<<"c1">>, <<"c1", " ">>, TopicHeader("t") \o <<"c1">>}

\* Another actor posts a comment on a pull request (a new thread, or a reply
\* below the comments of a thread), or the remote lists a thread without
\* comments.
remoteComment ==
  /\ Idle
  /\ StoreSize(PrIds) < MaxComments
  /\ \E number \in PrIds :
       \/ \E content \in RemoteContents :
            threads' = remotePostComment(number, content)
       \/ \E t \in DOMAIN threads[number], content \in RemoteContents :
            /\ IsDefined(threads[number][t].comments)
            /\ threads' = [threads EXCEPT ![number][t] =
                 Thread(Some(Append(Get(@.comments),
                                    Comment(NextCommentId, Some(content)))))]
       \/ threads' = [threads EXCEPT ![number] = Append(@, Thread(Undefined))]
  /\ prev' = NoCall
  /\ UNCHANGED <<config, remotePrs, last, created, iam, callers>>

\* The orchestrator takes the result of the call that returned.
takeResult ==
  /\ ~Idle
  /\ last' = NoCall
  /\ prev' = IF last.op = "ensureComment" /\ ~last.threw /\ last.result
             THEN last ELSE NoCall
  /\ UNCHANGED <<config, remotePrs, created, threads, iam, callers>>

\* ------------------------------------------------------------ specification

Init ==
  /\ config = [repository |-> Undefined, defaultBranch |-> Undefined,
               region |-> Undefined, prList |-> Undefined,
               credentials |-> Undefined, userArn |-> Undefined]
  /\ remotePrs = <<>>
  /\ last = NoCall
  /\ created = {}
  /\ threads = [n \in PrIds |-> <<>>]
  /\ prev = NoCall
  /\ iam = Undefined
  /\ callers = [p \in Callers |-> NotCalled]

\* The pull-request operations of one session.
Next ==
  \/ getPrList
  \/ findPr
  \/ getBranchPr
  \/ getPr
  \/ createPr
  \/ updatePr
  \/ mergePr
  \/ remoteChange
  \/ takeResult

Spec == Init /\ [][Next]_vars

\* Repository sessions: initRepo and the reset of the config between
\* directory queries and creations.
SessionNext ==
  \/ initRepo
  \/ getPrList
  \/ createPr
  \/ resetConfig
  \/ takeResult

SessionSpec == Init /\ [][SessionNext]_vars

\* The comment reconciliation of pull requests.
CommentNext ==
  \/ ensureComment
  \/ ensureCommentRemoval
  \/ remoteComment
  \/ takeResult

CommentSpec == Init /\ [][CommentNext]_vars

\* The start of a session: initPlatform, as often as the orchestrator runs.
PlatformNext ==
  \/ initPlatform
  \/ takeResult

PlatformSpec == Init /\ [][PlatformNext]_vars

\* Two invocations of getPrList that may overlap, in a session whose
\* repository holds two open pull requests that other actors may close or
\* merge meanwhile.
OverlapInit ==
  /\ config = [repository |-> Undefined, defaultBranch |-> Undefined,
               region |-> Undefined, prList |-> Undefined,
               credentials |-> Undefined, userArn |-> Undefined]
  /\ remotePrs = <<remoteNewPr("a", <<"x">>), remoteNewPr("b", <<"y">>)>>
  /\ last = NoCall
  /\ created = {}
  /\ threads = [n \in PrIds |-> <<>>]
  /\ prev = NoCall
  /\ iam = Undefined
  /\ callers = [p \in Callers |-> NotCalled]

OverlapNext ==
  \/ \E p \in Callers : getPrListCalled(p)
  \/ \E p \in Callers : getPrListListed(p)
  \/ \E p \in Callers : getPrListFetched(p)
  \/ remoteChange

OverlapSpec == OverlapInit /\ [][OverlapNext]_vars

\* ------------------------------------------------------------------ claims

\* The directory the queries of the current state read: the cache slot's
\* list, empty while the slot is not populated.
Directory == IF IsDefined(config.prList) THEN Get(config.prList) ELSE <<>>

Numbers(prs) == { prs[i].number : i \in DOMAIN prs }

\* C1: the state of the Pr getPr returns is merged whenever the fetched
\* record's merge metadata says isMerged, whatever its raw status; otherwise
\* it is open exactly when the raw status is OPEN and closed for every other
\* raw status.
C1_DerivedStatePrecedence ==
  (last.op = "getPr" /\ IsDefined(last.result)) =>
    LET raw == remotePrs[last.args]
        state == Get(last.result).state
    IN /\ raw.isMerged => state = PrStateMerged
       /\ ~raw.isMerged =>
            /\ (state = PrStateOpen) <=> (raw.pullRequestStatus = StatusOPEN)
            /\ raw.pullRequestStatus # StatusOPEN => state = PrStateClosed

\* getPr has returned merged for a record that is merged and still OPEN.
C1_Witness ==
  /\ last.op = "getPr"
  /\ IsDefined(last.result)
  /\ remotePrs[last.args].isMerged
  /\ remotePrs[last.args].pullRequestStatus = StatusOPEN
  /\ Get(last.result).state = PrStateMerged

\* C2: every entry of a directory getPrList has just populated carries the
\* state getPr derives from the same raw record (merged when isMerged).
C2_ListingUsesGetPrRule ==
  (last.op = "getPrList" /\ ~last.threw /\ last.calls # <<>>) =>
    \A i \in DOMAIN last.result :
      last.result[i].state = getPrState(remotePrs[last.result[i].number])

\* C3: once the cache slot is populated, every step other than the reset of
\* the config leaves it as it is, and a getPrList call returns exactly that
\* list, does not throw and issues no remote call.
C3_CacheStability ==
  [][ (IsDefined(config.prList) /\ ~resetConfig) =>
        /\ config'.prList = config.prList
        /\ last'.op = "getPrList" =>
             /\ ~last'.threw
             /\ last'.result = Get(config.prList)
             /\ last'.calls = <<>> ]_vars

\* getPrList has answered from a non-empty cache although a pull request was
\* created remotely after the cache was populated.
C3_Witness ==
  /\ last.op = "getPrList"
  /\ last.calls = <<>>
  /\ Len(last.result) > 0
  /\ \E c \in created : c.cached /\ c.number \notin Numbers(last.result)

\* C4: createPr, updatePr and mergePr, whether they succeed or fail, leave
\* the config and its cache slot unchanged; a populated slot is changed by no
\* step, and a findPr made while it is populated issues no remote call and
\* returns an entry of that snapshot.
C4_MutationsKeepCache ==
  [][ /\ last'.op \in {"createPr", "updatePr", "mergePr"} => config' = config
      /\ IsDefined(config.prList) =>
           /\ config'.prList = config.prList
           /\ last'.op = "findPr" =>
                /\ last'.calls = <<>>
                /\ IsDefined(last'.result) =>
                     \E i \in DOMAIN Get(config.prList) :
                       Get(last'.result) = Get(config.prList)[i] ]_vars

\* mergePr has merged and closed a pull request that the cache still holds
\* as open.
C4_Witness ==
  /\ last.op = "mergePr"
  /\ last.result = TRUE
  /\ remotePrs[last.args.id].isMerged
  /\ \E i \in DOMAIN Directory :
       /\ Directory[i].number = last.args.id
       /\ Directory[i].state = PrStateOpen

\* C5 as claimed: no pull request made through createPr since the last reset
\* is in a getPrList result, whatever the cache slot held when it was made.
C5_CreatedNeverListed ==
  (last.op = "getPrList" /\ ~last.threw) =>
    \A c \in created : c.number \notin Numbers(last.result)

\* C5 as amended: no pull request made through createPr while the cache slot
\* was populated is in a getPrList result, until the config is reset.
C5_CreatedWhileCachedNeverListed ==
  (last.op = "getPrList" /\ ~last.threw) =>
    \A c \in created : c.cached => c.number \notin Numbers(last.result)

\* getPrList has returned a pull request created in this session before the
\* cache was populated, and not the one created after.
C5_Witness ==
  /\ last.op = "getPrList"
  /\ ~last.threw
  /\ \E c \in created : c.cached
  /\ \E c \in created : ~c.cached /\ c.number \in Numbers(last.result)

\* C6: after an initRepo that succeeded the cache slot is empty.
C6_InitRepoEmptiesCache ==
  (last.op = "initRepo" /\ ~last.threw) => config.prList = Undefined

\* C7: what findPr returns passes the state policy: anything for all, a
\* state other than open for !open, the requested state for open, closed and
\* merged.
C7_StatePolicy ==
  (last.op = "findPr" /\ IsDefined(last.result)) =>
    LET wanted == last.args.state
        state == Get(last.result).state
    IN /\ wanted = PrStateNotOpen => state # PrStateOpen
       /\ wanted \in {PrStateOpen, PrStateClosed, PrStateMerged} => state = wanted

\* The short name of a branch given with or without the refs/heads/ prefix.
C8_ShortName(branchName) == branchName[Len(branchName)]

\* The other spelling of a branch name: the prefix dropped or added.
C8_OtherSpelling(branchName) ==
  IF Head(branchName) = RefsHeads THEN Tail(branchName)
  ELSE <<RefsHeads>> \o branchName

\* The places of the directory whose entry is on the branch and, when a title
\* is asked for, has that title.
C8_Matches(args) ==
  { i \in DOMAIN Directory :
      /\ Directory[i].sourceBranch = <<RefsHeads, C8_ShortName(args.branchName)>>
      /\ IsDefined(args.prTitle) => Directory[i].title = Get(args.prTitle) }

C9_ListingFailureIsAbsent ==
  (last.op = "findPr" /\ \E i \in DOMAIN last.calls :
                           /\ last.calls[i].api = "listPullRequests"
                           /\ ~last.calls[i].ok) =>
    /\ ~last.threw
    /\ last.result = Undefined

\* findPr has returned null after a rejected listing although the remote
\* holds a pull request of the branch asked for.
C9_Witness ==
  /\ last.op = "findPr"
  /\ last.calls = <<Call("listPullRequests", 0, FALSE)>>
  /\ last.result = Undefined
  /\ ~last.threw
  /\ \E n \in DOMAIN remotePrs :
       remotePrs[n].sourceReference = getNewBranchName(last.args.branchName)

\* C10: a getPr call issues exactly one remote fetch, of the number asked
\* for, whatever the cache slot holds; it leaves the config as it is; it
\* returns null when the fetch brings no data, and otherwise a Pr with the
\* number asked for and the title and branches of the fetched record.
C10_GetPrBypassesCache ==
  [][ last'.op = "getPr" =>
        /\ config' = config
        /\ Len(last'.calls) = 1
        /\ last'.calls[1].api = "getPr"
        /\ last'.calls[1].arg = last'.args
        /\ IF last'.calls[1].ok
           THEN /\ IsDefined(last'.result)
                /\ Get(last'.result).number = last'.args
                /\ Get(last'.result).title = remotePrs[last'.args].title
                /\ Get(last'.result).sourceBranch = remotePrs[last'.args].sourceReference
                /\ Get(last'.result).targetBranch =
                     remotePrs[last'.args].destinationReference
           ELSE last'.result = Undefined ]_vars

\* getPr has fetched a pull request that the populated cache holds with
\* another state and another title.
C10_Witness ==
  /\ last.op = "getPr"
  /\ IsDefined(last.result)
  /\ \E i \in DOMAIN Directory :
       /\ Directory[i].number = last.args
       /\ Directory[i].state # Get(last.result).state
       /\ Directory[i].title # Get(last.result).title

\* The numbers of the successful single-PR fetches of a call log, in order.
C11_FetchedNumbers(calls) ==
  LET fetched == SelectSeq(calls, LAMBDA c : c.api = "getPr" /\ c.ok)
  IN [i \in DOMAIN fetched |-> fetched[i].arg]

\* A call log that holds nothing but the population of the directory: empty
\* when the cache answered, else the listing followed by the fetches that
\* built the directory, in its order.
C11_ListingCalls(calls) ==
  \/ calls = <<>>
  \/ /\ calls[1].api = "listPullRequests"
     /\ \A i \in 2..Len(calls) : calls[i].api = "getPr"
     /\ C11_FetchedNumbers(Tail(calls)) =
          [i \in DOMAIN Directory |-> Directory[i].number]

\* The places of the directory whose entry is on the branch and cached open.
C11_OpenOnBranch(branchName) ==
  { i \in DOMAIN Directory :
      /\ Directory[i].sourceBranch = <<RefsHeads, C8_ShortName(branchName)>>
      /\ Directory[i].state = PrStateOpen }

\* C11: getBranchPr(b) ends with one fetch of the number n of the first
\* directory entry on branch b that is cached open and returns what getPr(n)
\* returns for that fetch; when the directory has no such entry it returns
\* null and its call log holds nothing but the population of the directory.
C11_BranchPrIsGetPrOfFirstOpen ==
  last.op = "getBranchPr" =>
    LET open == C11_OpenOnBranch(last.args)
        calls == last.calls
    IN IF open = {}
       THEN /\ last.result = Undefined
            /\ C11_ListingCalls(calls)
       ELSE LET n == Directory[CHOOSE i \in open : \A j \in open : i <= j].number
            IN /\ Len(calls) > 0
               /\ C11_ListingCalls(SubSeq(calls, 1, Len(calls) - 1))
               /\ <<calls[Len(calls)]>> = getPrRun(n, ~calls[Len(calls)].ok).calls
               /\ last.result = getPrRun(n, ~calls[Len(calls)].ok).result

\* getBranchPr has passed over a closed entry of the branch, re-fetched the
\* open one behind it and returned it with a state the cache does not hold.
C11_Witness ==
  /\ last.op = "getBranchPr"
  /\ IsDefined(last.result)
  /\ Len(Directory) = 2
  /\ Directory[1].sourceBranch = Directory[2].sourceBranch
  /\ Directory[1].state = PrStateClosed
  /\ Get(last.result).number = Directory[2].number
  /\ Get(last.result).state = PrStateMerged

\* The number of calls of one client function in the log of the last call.
C18_Count(api) == Cardinality({ i \in DOMAIN last.calls : last.calls[i].api = api })

\* C18: mergePr with strategy rebase returns false and issues no squash
\* merge, no fast-forward merge and no status update, whether the fetch
\* found the pull request or not.
C18_RebaseNeverMerges ==
  (last.op = "mergePr" /\ last.args.strategy = "rebase") =>
    /\ last.result = FALSE
    /\ C18_Count("squashMerge") = 0
    /\ C18_Count("fastForwardMerge") = 0
    /\ C18_Count("updatePrStatus") = 0

\* mergePr has refused rebase for a pull request that was found with merge
\* targets.
C18_Witness ==
  /\ last.op = "mergePr"
  /\ last.args.strategy = "rebase"
  /\ last.calls[1].ok
  /\ last.calls[1].targets
  /\ last.result = FALSE

\* C19: mergePr with strategy rebase or merge-commit returns false without
\* any remote call, the fetch of the pull request included.
C19_UnsupportedWithoutRemoteCall ==
  (last.op = "mergePr" /\ last.args.strategy \in {"rebase", "merge-commit"}) =>
    /\ last.result = FALSE
    /\ last.calls = <<>>

\* C20: for a pull request found with merge targets, auto and squash issue
\* exactly one squash merge and no fast-forward merge, fast-forward issues
\* exactly one fast-forward merge and no squash merge, and every other
\* strategy returns false with no merge call and no status update.
C20_StrategyDispatch ==
  (last.op = "mergePr" /\ last.calls[1].ok /\ last.calls[1].targets) =>
    LET strategy == last.args.strategy IN
    /\ strategy \in {"auto", "squash"} =>
         C18_Count("squashMerge") = 1 /\ C18_Count("fastForwardMerge") = 0
    /\ strategy = "fast-forward" =>
         C18_Count("fastForwardMerge") = 1 /\ C18_Count("squashMerge") = 0
    /\ strategy \notin {"auto", "squash", "fast-forward"} =>
         /\ last.result = FALSE
         /\ C18_Count("squashMerge") = 0
         /\ C18_Count("fastForwardMerge") = 0
         /\ C18_Count("updatePrStatus") = 0

\* mergePr has merged by fast-forward and closed the pull request.
C20_Witness ==
  /\ last.op = "mergePr"
  /\ last.args.strategy = "fast-forward"
  /\ C18_Count("fastForwardMerge") = 1
  /\ C18_Count("updatePrStatus") = 1
  /\ last.result = TRUE

\* The threads of a stream whose root comment matches an ensureComment call:
\* with a topic the root content starts with the topic header, without one it
\* equals the composed body.
C12_MatchingThreads(data, args) ==
  { t \in DOMAIN data :
      /\ IsDefined(data[t].comments)
      /\ LET root == Get(data[t].comments)[1] IN
         /\ IsDefined(root.content)
         /\ IF IsDefined(args.topic)
            THEN StartsWith(Get(root.content), TopicHeader(Get(args.topic)))
            ELSE Get(root.content) = ensureCommentBody(args.topic, args.content) }

\* The root comment of the first matching thread.
C12_Selected(data, args) ==
  LET matches == C12_MatchingThreads(data, args)
  IN Get(data[CHOOSE t \in matches : \A u \in matches : t <= u].comments)[1]

\* The calls of one client function in a log.
C12_Calls(calls, api) == SelectSeq(calls, LAMBDA c : c.api = api)

\* C12 as claimed: for every retrieved thread list, ensureComment issues one
\* create and no update when no root matches, one update of the first
\* matching root and no create when that root differs from the composed body,
\* no mutating call when it is identical, and returns true in all three cases.
C12_ThreeOutcomes ==
  [][ (last'.op = "ensureComment" /\ last'.calls[1].data) =>
        LET args == last'.args
            data == threads[args.number]
            creates == C12_Calls(last'.calls, "createPrComment")
            updates == C12_Calls(last'.calls, "updateComment")
        IN /\ ~last'.threw
           /\ last'.result = TRUE
           /\ IF C12_MatchingThreads(data, args) = {}
              THEN Len(creates) = 1 /\ Len(updates) = 0
              ELSE IF C12_Selected(data, args).content
                        # Some(ensureCommentBody(args.topic, args.content))
              THEN /\ Len(creates) = 0
                   /\ Len(updates) = 1
                   /\ updates[1].arg = C12_Selected(data, args).commentId
              ELSE Len(creates) = 0 /\ Len(updates) = 0 ]_vars

\* C12 as amended: the selection and the update and no-op outcomes are as
\* claimed; when no root matches, no update is issued and exactly one create
\* is issued if the event lookup brought the anchor commit ids, none
\* otherwise; the result is true exactly when the anchor was found (for a
\* create) and the mutating call that was issued, if any, was answered.
C12_ThreeOutcomesGivenAnchor ==
  [][ (last'.op = "ensureComment" /\ last'.calls[1].data) =>
        LET args == last'.args
            data == threads[args.number]
            creates == C12_Calls(last'.calls, "createPrComment")
            updates == C12_Calls(last'.calls, "updateComment")
            events == C12_Calls(last'.calls, "getPrEvents")
            succeeded == ~last'.threw /\ last'.result = TRUE
        IN IF C12_MatchingThreads(data, args) = {}
           THEN /\ Len(updates) = 0
                /\ Len(events) = 1
                /\ Len(creates) = (IF events[1].anchor THEN 1 ELSE 0)
                /\ succeeded <=> (Len(creates) = 1 /\ creates[1].ok)
           ELSE IF C12_Selected(data, args).content
                     # Some(ensureCommentBody(args.topic, args.content))
           THEN /\ Len(creates) = 0
                /\ Len(events) = 0
                /\ Len(updates) = 1
                /\ updates[1].arg = C12_Selected(data, args).commentId
                /\ succeeded <=> updates[1].ok
           ELSE /\ Len(creates) = 0
                /\ Len(events) = 0
                /\ Len(updates) = 0
                /\ succeeded ]_vars

\* ensureComment has updated the root of the first of two threads that carry
\* the topic header and left the second as it was.
C12_Witness ==
  /\ last.op = "ensureComment"
  /\ ~last.threw
  /\ Len(last.calls) = 2
  /\ last.calls[2].api = "updateComment"
  /\ LET data == threads[last.args.number]
         matches == C12_MatchingThreads(data, last.args)
     IN /\ Cardinality(matches) = 2
        /\ \E t, u \in matches :
             /\ t < u
             /\ Get(data[t].comments)[1].commentId = last.calls[2].arg
             /\ Get(data[t].comments)[1].content # Get(data[u].comments)[1].content

\* C13: an ensureComment that follows, with the same number, topic and
\* content and with nothing else touching the comment streams in between, an
\* ensureComment that created the comment issues no create and no update
\* call, and returns true when its retrieval brings the thread list; the two
\* calls issue exactly one create in total.
C13_Idempotence ==
  (/\ last.op = "ensureComment"
   /\ prev.op = "ensureComment"
   /\ prev.args = last.args
   /\ Len(C12_Calls(prev.calls, "createPrComment")) > 0) =>
    /\ Len(C12_Calls(prev.calls, "createPrComment")) = 1
    /\ Len(C12_Calls(last.calls, "createPrComment")) = 0
    /\ Len(C12_Calls(last.calls, "updateComment")) = 0
    /\ last.calls[1].data => (~last.threw /\ last.result = TRUE)

\* The second of two identical ensureComment calls without a topic, on a
\* content that sanitize rewrites, has found the comment the first created
\* and done nothing.
C13_Witness ==
  /\ last.op = "ensureComment"
  /\ prev.op = "ensureComment"
  /\ prev.args = last.args
  /\ last.args.topic = Undefined
  /\ sanitize(last.args.content) # last.args.content
  /\ Len(C12_Calls(prev.calls, "createPrComment")) = 1
  /\ last.calls = <<RetrievalCall(last.args.number, "data")>>
  /\ ~last.threw
  /\ last.result = TRUE

\* C14: an ensureComment whose event lookup, create call or update call was
\* rejected by the remote returns false and does not throw.
C14_RemoteErrorIsFalse ==
  (/\ last.op = "ensureComment"
   /\ \E i \in DOMAIN last.calls :
        /\ last.calls[i].api \in {"getPrEvents", "createPrComment", "updateComment"}
        /\ ~last.calls[i].ok) =>
    /\ ~last.threw
    /\ last.result = FALSE

\* C15: when the retrieval of the comment list is rejected, ensureComment
\* returns false, ensureCommentRemoval returns normally, and the retrieval is
\* the only remote call of either: no create, update or delete, no retry.
C15_RetrievalFailureShortCircuits ==
  (/\ last.op \in {"ensureComment", "ensureCommentRemoval"}
   /\ ~last.calls[1].ok) =>
    /\ ~last.threw
    /\ Len(last.calls) = 1
    /\ last.op = "ensureComment" => last.result = FALSE

\* ensureComment has returned false after a rejected retrieval although the
\* stream holds a thread with the topic header and another content.
C15_Witness ==
  /\ last.op = "ensureComment"
  /\ last.calls = <<RetrievalCall(last.args.number, "rejects")>>
  /\ ~last.threw
  /\ last.result = FALSE
  /\ \E t \in C12_MatchingThreads(threads[last.args.number], last.args) :
       Get(threads[last.args.number][t].comments)[1].content
         # Some(ensureCommentBody(last.args.topic, last.args.content))

\* The comments of a stream in listing order: thread by thread, and inside a
\* thread from the root down.
RECURSIVE C16_Flatten(_)
C16_Flatten(data) ==
  IF data = <<>> THEN <<>>
  ELSE (IF IsDefined(Head(data).comments) THEN Get(Head(data).comments) ELSE <<>>)
       \o C16_Flatten(Tail(data))

\* The comments that match a removal key: by topic the content starts with
\* the topic header, by content the trimmed content equals the target.
C16_Matching(data, removeConfig) ==
  SelectSeq(C16_Flatten(data),
    LAMBDA comment :
      /\ IsDefined(comment.content)
      /\ IF removeConfig.type = "by-topic"
         THEN StartsWith(Get(comment.content), TopicHeader(Get(removeConfig.topic)))
         ELSE Trim(Get(comment.content)) = Get(removeConfig.content))

\* C16: an ensureCommentRemoval issues at most one delete call: of the first
\* matching comment in listing order when the retrieved threads hold a match,
\* none when nothing matches or nothing was retrieved.
C16_AtMostOneDelete ==
  [][ last'.op = "ensureCommentRemoval" =>
        LET deletes == C12_Calls(last'.calls, "deleteComment")
            matching == C16_Matching(threads[last'.args.number], last'.args)
        IN IF last'.calls[1].data /\ matching # <<>>
           THEN /\ Len(deletes) = 1
                /\ deletes[1].arg = matching[1].commentId
           ELSE Len(deletes) = 0 ]_vars

\* ensureCommentRemoval has deleted one comment of a stream in which a later
\* comment matches the key as well and is still there.
C16_Witness ==
  /\ last.op = "ensureCommentRemoval"
  /\ ~last.threw
  /\ Len(last.calls) = 2
  /\ last.calls[2].api = "deleteComment"
  /\ \E i \in DOMAIN C16_Matching(threads[last.args.number], last.args) :
       C16_Matching(threads[last.args.number], last.args)[i].commentId
         > last.calls[2].arg

\* The ids of the root comments of all streams.
C17_RootIds ==
  { Get(threads[n][t].comments)[1].commentId :
      <<n, t>> \in { <<m, u>> \in PrIds \X (1..MaxComments) :
                       /\ u \in DOMAIN threads[m]
                       /\ IsDefined(threads[m][u].comments) } }

\* C17: every update call of ensureComment and every delete call of
\* ensureCommentRemoval names the root comment of a thread, never a reply.
C17_OnlyRootsAreTouched ==
  last.op \in {"ensureComment", "ensureCommentRemoval"} =>
    \A i \in DOMAIN last.calls :
      last.calls[i].api \in {"updateComment", "deleteComment"} =>
        last.calls[i].arg \in C17_RootIds

\* C21: when its merge call was answered, mergePr issues exactly one status
\* update, to CLOSED, as its last call; it returns false when that call is
\* rejected and true when it is answered, whatever status the answer reports.
C21_CloseAfterMerge ==
  (/\ last.op = "mergePr"
   /\ \E i \in DOMAIN last.calls :
        /\ last.calls[i].api \in {"squashMerge", "fastForwardMerge"}
        /\ last.calls[i].ok) =>
    LET close == last.calls[Len(last.calls)] IN
    /\ C18_Count("updatePrStatus") = 1
    /\ close.api = "updatePrStatus"
    /\ close.status = StatusCLOSED
    /\ close.arg = last.args.id
    /\ ~last.threw
    /\ last.result = close.ok

\* mergePr has returned true although the pull request is still OPEN after
\* the close call.
C21_Witness ==
  /\ last.op = "mergePr"
  /\ last.result = TRUE
  /\ C18_Count("squashMerge") = 1
  /\ last.calls[Len(last.calls)].api = "updatePrStatus"
  /\ last.calls[Len(last.calls)].ok
  /\ remotePrs[last.args.id].pullRequestStatus = StatusOPEN

\* C22: no steady-state operation ends with an exception.
C22_SteadyStateNeverThrows ==
  last.op \in {"getPrList", "findPr", "getBranchPr", "getPr", "mergePr",
               "ensureComment", "ensureCommentRemoval"} =>
    ~last.threw

\* C23: an updatePr whose status update was rejected returns normally, after
\* the description update (when a body is given) and the title update (when
\* a title is given) have been issued and answered.
C23_StatusFailureSwallowed ==
  (/\ last.op = "updatePr"
   /\ \E i \in DOMAIN last.calls :
        last.calls[i].api = "updatePrStatus" /\ ~last.calls[i].ok) =>
    /\ ~last.threw
    /\ last.calls[Len(last.calls)].api = "updatePrStatus"
    /\ C18_Count("updatePrStatus") = 1
    /\ C18_Count("updatePrDescription") = (IF last.args.prBody THEN 1 ELSE 0)
    /\ C18_Count("updatePrTitle") = (IF IsDefined(last.args.prTitle) THEN 1 ELSE 0)
    /\ \A i \in 1..(Len(last.calls) - 1) : last.calls[i].ok

\* updatePr has returned normally with the new title stored remotely although
\* its status update was rejected.
C23_Witness ==
  /\ last.op = "updatePr"
  /\ ~last.threw
  /\ Len(last.calls) = 3
  /\ ~last.calls[3].ok
  /\ IsDefined(last.args.prTitle)
  /\ remotePrs[last.args.number].title = Get(last.args.prTitle)

\* C30: a mergePr whose fetch brought no pull request, or one without merge
\* targets, returns false and issues no other remote call, for every
\* strategy.
C30_NoTargetsNoMutation ==
  (last.op = "mergePr" /\ (~last.calls[1].ok \/ ~last.calls[1].targets)) =>
    /\ last.result = FALSE
    /\ Len(last.calls) = 1

\* mergePr, asked to squash, has returned false on a pull request that was
\* fetched without merge targets.
C30_Witness ==
  /\ last.op = "mergePr"
  /\ last.args.strategy = "squash"
  /\ last.calls[1].ok
  /\ ~last.calls[1].targets
  /\ last.result = FALSE

\* C26: a getPrList call that asked the remote for the listing and returned
\* normally has stored the sequence it returns in the cache slot, also when
\* the listing came without an id list.
C26_ListingIsCached ==
  (last.op = "getPrList" /\ ~last.threw /\ last.calls # <<>>) =>
    config.prList = Some(last.result)

\* C27: getPrList issues one fetch per listed id, in listing order, each of
\* the integer parse of the id; the directory it returns and caches is the
\* sequence of the ids whose fetch brought data, in that order, each entry
\* numbered with the parse of its id and built from the fetched record.
C27_OrderPreserving ==
  (last.op = "getPrList" /\ ~last.threw /\ Len(last.calls) > 1) =>
    LET ids == last.calls[1].ids
        fetches == Tail(last.calls)
    IN /\ Len(fetches) = Len(ids)
       /\ \A i \in DOMAIN ids :
            fetches[i].api = "getPr" /\ fetches[i].arg = ParseInt(ids[i])
       /\ [i \in DOMAIN last.result |-> last.result[i].number]
            = C11_FetchedNumbers(fetches)
       /\ \A i \in DOMAIN last.result :
            last.result[i].title = remotePrs[last.result[i].number].title
       /\ Directory = last.result

\* getPrList has listed pull request 2 before 1, got no data for 2 and
\* returned the directory that holds 1 alone.
C27_Witness ==
  /\ last.op = "getPrList"
  /\ Len(last.calls) = 3
  /\ last.calls[1].ids = <<IdString(2), IdString(1)>>
  /\ ~last.calls[2].ok
  /\ Len(last.result) = 1
  /\ last.result[1].number = 1

\* C28: the content part of the body of every create and update call of
\* ensureComment (the body without the topic header) is no longer than the
\* byte budget.
C28_ContentWithinBudget ==
  last.op = "ensureComment" =>
    \A i \in DOMAIN last.calls :
      last.calls[i].api \in {"createPrComment", "updateComment"} =>
        ByteLength(last.calls[i].body)
          - ByteLength(ensureCommentHeader(last.args.topic)) <= ContentBudget

\* C29: an ensureComment whose event lookup was answered without the before
\* and after commit ids (no event list, an empty one, or an event without
\* them) returns false and issues no create call.
C29_NoAnchorIsFalse ==
  (/\ last.op = "ensureComment"
   /\ \E i \in DOMAIN last.calls :
        /\ last.calls[i].api = "getPrEvents"
        /\ last.calls[i].ok
        /\ ~last.calls[i].anchor) =>
    /\ ~last.threw
    /\ last.result = FALSE
    /\ Len(C12_Calls(last.calls, "createPrComment")) = 0

\* C24: initPlatform fails with the configuration error exactly when the
\* access key (username or AWS_ACCESS_KEY_ID), the secret (password or
\* AWS_SECRET_ACCESS_KEY) or the region (of the endpoint, or AWS_REGION)
\* cannot be resolved; when it fails so the config is as it was; when it
\* succeeds the endpoint it returns is the given one, or the one derived from
\* the region.
C24_ConfigurationError ==
  [][ last'.op = "initPlatform" =>
        LET a == last'.args
            keyResolved == Truthy(a.username) \/ Truthy(a.env.AWS_ACCESS_KEY_ID)
            secretResolved == Truthy(a.password) \/ Truthy(a.env.AWS_SECRET_ACCESS_KEY)
            regionResolved ==
              \/ IsDefined(a.endpoint) /\ IsDefined(parseRegion(Get(a.endpoint)))
              \/ Truthy(a.env.AWS_REGION)
            failed == last'.threw /\ last'.result = InitError
        IN /\ failed <=> ~(keyResolved /\ secretResolved /\ regionResolved)
           /\ failed => config' = config
           /\ ~last'.threw =>
                last'.result.endpoint =
                  (IF IsDefined(a.endpoint) THEN Get(a.endpoint)
                   ELSE regionEndpoint(Get(config'.region))) ]_vars

\* C25: initRepo fails with REPOSITORY_NOT_FOUND when the lookup is rejected
\* or answers nothing, with PLATFORM_BAD_CREDENTIALS when the git
\* initialization fails whatever the lookup answered, with REPOSITORY_EMPTY
\* when the answer has no repositoryMetadata or has one without default
\* branch or repository id, and succeeds otherwise with isFork false and the
\* default branch.
C25_ErrorClassification ==
  last.op = "initRepo" =>
    LET answer == last.calls[1].answer
        gitFailed == Len(last.calls) = 2 /\ ~last.calls[2].ok
    IN IF answer = "rejects"
       THEN last.threw /\ last.result = "REPOSITORY_NOT_FOUND"
       ELSE IF gitFailed
       THEN last.threw /\ last.result = "PLATFORM_BAD_CREDENTIALS"
       ELSE IF answer = "undefined"
       THEN last.threw /\ last.result = "REPOSITORY_NOT_FOUND"
       ELSE IF answer \in {"noMetadata", "empty"}
       THEN last.threw /\ last.result = "REPOSITORY_EMPTY"
       ELSE /\ ~last.threw
            /\ last.result.isFork = FALSE
            /\ last.result.defaultBranch = remoteDefaultBranch(last.args)
            /\ Some(last.result.defaultBranch) = config.defaultBranch

\* C31: a mergePr whose merge call (squash or fast-forward) was rejected
\* returns false without throwing, and the rejected merge is its last remote
\* call: no status update follows.
C31_MergeFailureIsFalse ==
  (/\ last.op = "mergePr"
   /\ \E i \in DOMAIN last.calls :
        /\ last.calls[i].api \in {"squashMerge", "fastForwardMerge"}
        /\ ~last.calls[i].ok) =>
    /\ ~last.threw
    /\ last.result = FALSE
    /\ C18_Count("updatePrStatus") = 0
    /\ last.calls[Len(last.calls)].api \in {"squashMerge", "fastForwardMerge"}

\* mergePr, asked to fast-forward, has returned false after its merge call
\* was rejected.
C31_Witness ==
  /\ last.op = "mergePr"
  /\ last.args.strategy = "fast-forward"
  /\ Len(last.calls) = 2
  /\ last.calls[2].api = "fastForwardMerge"
  /\ ~last.calls[2].ok
  /\ last.result = FALSE

\* The positions of the merge calls and of the status updates in a log.
C32_Merges(calls) ==
  { i \in DOMAIN calls : calls[i].api \in {"squashMerge", "fastForwardMerge"} }

C32_Closes(calls) ==
  { i \in DOMAIN calls : calls[i].api = "updatePrStatus" }

\* C32: an invocation of mergePr issues at most one merge call and at most
\* one close call, a close call only after a merge call that was answered,
\* and returns true only if an answered merge call was followed by an
\* answered close call.
C32_TrueOnlyAfterMergeAndClose ==
  last.op = "mergePr" =>
    LET merges == C32_Merges(last.calls)
        closes == C32_Closes(last.calls)
    IN /\ Cardinality(merges) <= 1
       /\ Cardinality(closes) <= 1
       /\ \A c \in closes : \E m \in merges : m < c /\ last.calls[m].ok
       /\ last.result = TRUE =>
            \E m \in merges, c \in closes :
              m < c /\ last.calls[m].ok /\ last.calls[c].ok

\* mergePr has returned true after a squash merge and a close call, both
\* answered, and the pull request is merged on the remote.
C32_Witness ==
  /\ last.op = "mergePr"
  /\ last.result = TRUE
  /\ Len(last.calls) = 3
  /\ last.calls[2].api = "squashMerge"
  /\ last.calls[2].ok
  /\ last.calls[3].api = "updatePrStatus"
  /\ last.calls[3].ok
  /\ remotePrs[last.args.id].isMerged

\* C33: an invocation of getPrList that starts while the cache slot is not
\* populated issues its own remote listing, whether or not another
\* invocation is in flight, and one that starts on a populated slot issues
\* none; an invocation writes the slot only when it ends, after its last
\* fetch, and then the slot holds the sequence it built, whatever another
\* invocation had stored there before.
C33_OverlappingCallsRace ==
  [][ \A p \in Callers :
        /\ (callers[p].pc = "idle" /\ callers'[p].pc # "idle") =>
             /\ callers'[p].listings = 1 <=> ~IsDefined(config.prList)
             /\ config' = config
        /\ (callers[p].pc # "idle" /\ callers'[p] # callers[p]
              /\ callers'[p].pc # "done") =>
             config' = config
        /\ (callers[p].pc \in {"listing", "fetching"}
              /\ callers'[p].pc = "done"
              /\ callers'[p].kind \in {"undefined", "ids"}) =>
             config'.prList = Some(callers'[p].result) ]_vars

\* Both invocations have issued a remote listing and built different
\* sequences; the first one stored its sequence while the second was still
\* fetching, and the cache holds the sequence of the second.
C33_Witness ==
  /\ \A p \in Callers :
       /\ callers[p].pc = "done"
       /\ callers[p].listings = 1
       /\ callers[p].kind = "ids"
  /\ callers[1].result # callers[2].result
  /\ config.prList = Some(callers[2].result)

\* C34: a getPrList or findPr call whose remote listing was rejected leaves
\* the config as it was, with the cache slot unpopulated; every getPrList or
\* findPr call made while the slot is unpopulated starts with a remote
\* listing; and when that listing is answered with ids the slot is populated
\* with the sequence built from them.
C34_FailureLeavesCacheUnpopulated ==
  [][ last'.op \in {"getPrList", "findPr"} =>
        /\ (\E i \in DOMAIN last'.calls :
              last'.calls[i].api = "listPullRequests" /\ ~last'.calls[i].ok) =>
             /\ config' = config
             /\ ~IsDefined(config'.prList)
        /\ ~IsDefined(config.prList) =>
             /\ last'.calls # <<>>
             /\ last'.calls[1].api = "listPullRequests"
        /\ (/\ ~IsDefined(config.prList)
            /\ last'.calls[1].ok
            /\ "ids" \in DOMAIN last'.calls[1]) =>
             /\ IsDefined(config'.prList)
             /\ Len(Get(config'.prList)) =
                  Cardinality({ i \in DOMAIN last'.calls :
                                  last'.calls[i].api = "getPr" /\ last'.calls[i].ok })
             /\ last'.op = "getPrList" => config'.prList = Some(last'.result) ]_vars

\* getPrList has thrown on a rejected listing in a session that created a
\* pull request, and the cache slot is unpopulated.
C34_Witness ==
  /\ last.op = "getPrList"
  /\ last.threw
  /\ last.calls = <<Call("listPullRequests", 0, FALSE)>>
  /\ ~IsDefined(config.prList)
  /\ created # {}

\* C35: the pull request getBranchPr returns carries the state getPr derives
\* from the remote record as it is now (merged, else open or closed by the
\* raw status), not the state of the directory entry it was found by.
C35_BranchPrStateIsFresh ==
  (last.op = "getBranchPr" /\ IsDefined(last.result)) =>
    Get(last.result).state = getPrState(remotePrs[Get(last.result).number])

\* getBranchPr, answered by the cache and one fetch, has returned a closed
\* pull request whose directory entry is open.
C35_Witness ==
  /\ last.op = "getBranchPr"
  /\ IsDefined(last.result)
  /\ Len(last.calls) = 1
  /\ Get(last.result).state = PrStateClosed
  /\ \E i \in DOMAIN Directory :
       /\ Directory[i].number = Get(last.result).number
       /\ Directory[i].state = PrStateOpen

\* C36: an ensureComment without a topic issues no update call and leaves
\* every existing thread as it is: either the store is unchanged, or one
\* create call was answered and one thread holding the composed body has
\* been added at the end of the pull request's stream.
C36_NoTopicNeverUpdates ==
  [][ (last'.op = "ensureComment" /\ ~IsDefined(last'.args.topic)) =>
        LET number == last'.args.number
            body == ensureCommentBody(last'.args.topic, last'.args.content)
            creates == C12_Calls(last'.calls, "createPrComment")
        IN /\ C12_Calls(last'.calls, "updateComment") = <<>>
           /\ \A n \in PrIds : \A t \in DOMAIN threads[n] :
                /\ t \in DOMAIN threads'[n]
                /\ threads'[n][t] = threads[n][t]
           /\ \/ threads' = threads
              \/ /\ Len(creates) = 1
                 /\ creates[1].ok
                 /\ creates[1].body = body
                 /\ Len(threads'[number]) = Len(threads[number]) + 1
                 /\ Get(threads'[number][Len(threads'[number])].comments)[1].content
                      = Some(body)
                 /\ \A n \in PrIds \ {number} : threads'[n] = threads[n] ]_vars

\* An ensureComment without a topic has added a thread to a stream that
\* already held an untopiced comment with another content.
C36_Witness ==
  /\ last.op = "ensureComment"
  /\ ~IsDefined(last.args.topic)
  /\ ~last.threw
  /\ last.result = TRUE
  /\ Len(last.calls) = 3
  /\ last.calls[3].api = "createPrComment"
  /\ LET stream == threads[last.args.number] IN
     /\ Len(stream) >= 2
     /\ Get(stream[Len(stream)].comments)[1].content = Some(last.calls[3].body)
     /\ \E t \in 1..(Len(stream) - 1) :
          /\ IsDefined(stream[t].comments)
          /\ IsDefined(Get(stream[t].comments)[1].content)
          /\ Get(stream[t].comments)[1].content # Some(last.calls[3].body)
          /\ ~StartsWith(Get(Get(stream[t].comments)[1].content), <<"### ">>)

\* The remote calls an updatePr issues when none of them is rejected: the
\* description update when a body is given, the title update when a title is
\* given, the status update.
C37_Expected(args) ==
  (IF args.prBody THEN <<"updatePrDescription">> ELSE <<>>) \o
  (IF IsDefined(args.prTitle) THEN <<"updatePrTitle">> ELSE <<>>) \o
  <<"updatePrStatus">>

\* C37: the remote calls of an updatePr are a prefix of description (body
\* given), title (title given), status, each for the number asked for; the
\* prefix ends early exactly when its last call, a description or title
\* update, was rejected, and then updatePr throws; otherwise the last call is
\* the one status update, to CLOSED when the requested state is closed and to
\* OPEN for every other state and for none.
C37_CallOrder ==
  last.op = "updatePr" =>
    LET expected == C37_Expected(last.args)
        calls == last.calls
        n == Len(calls)
    IN /\ n >= 1 /\ n <= Len(expected)
       /\ \A i \in 1..n : calls[i].api = expected[i] /\ calls[i].arg = last.args.number
       /\ \A i \in 1..(n - 1) : calls[i].ok
       /\ n < Len(expected) <=> (calls[n].api # "updatePrStatus" /\ ~calls[n].ok)
       /\ n < Len(expected) => last.threw
       /\ n = Len(expected) =>
            /\ C18_Count("updatePrStatus") = 1
            /\ calls[n].status =
                 (IF last.args.state = Some(PrStateClosed)
                  THEN StatusCLOSED ELSE StatusOPEN)

\* updatePr, given a body and a title but no state, has issued the
\* description, title and status updates in that order and the pull request
\* is OPEN on the remote.
C37_Witness ==
  /\ last.op = "updatePr"
  /\ last.args.prBody
  /\ IsDefined(last.args.prTitle)
  /\ ~IsDefined(last.args.state)
  /\ Len(last.calls) = 3
  /\ last.calls[1].api = "updatePrDescription"
  /\ last.calls[2].api = "updatePrTitle"
  /\ last.calls[3].api = "updatePrStatus"
  /\ last.calls[3].ok
  /\ last.calls[3].status = StatusOPEN
  /\ remotePrs[last.args.number].pullRequestStatus = StatusOPEN

\* C38: every initRepo, failed or not, leaves the requested name in the
\* repository field and the cache slot, the region, the credentials and the
\* user as they were; a failed one leaves defaultBranch as it was, and a
\* successful one sets it to the default branch it returns.
C38_FailedInitRepoKeepsName ==
  [][ last'.op = "initRepo" =>
        /\ config'.repository = Some(last'.args)
        /\ config'.prList = config.prList
        /\ config'.region = config.region
        /\ config'.credentials = config.credentials
        /\ config'.userArn = config.userArn
        /\ last'.threw => config'.defaultBranch = config.defaultBranch
        /\ ~last'.threw =>
             config'.defaultBranch = Some(last'.result.defaultBranch) ]_vars

\* initRepo for repoB has failed after a session on repoA: the config names
\* repoB, with the default branch and the non-empty directory of repoA.
C38_Witness ==
  /\ last.op = "initRepo"
  /\ last.threw
  /\ last.args = "repoB"
  /\ config.repository = Some("repoB")
  /\ config.defaultBranch = Some(remoteDefaultBranch("repoA"))
  /\ IsDefined(config.prList)
  /\ Len(Get(config.prList)) > 0

\* C39: getUserArn throws only when the call was rejected with a message
\* that names no user, and then it throws that error; it returns the ARN of
\* the response when the call was answered with one, the empty string when it
\* was answered without, and the ARN named by the message when the call was
\* rejected for missing permission.
C39_UserArnOrError ==
  (last.op = "initPlatform" /\ last.calls # <<>>) =>
    LET answer == last.calls[1].answer IN
    /\ last.threw <=> answer = "rejects"
    /\ last.threw => last.result = "TimeoutError"
    /\ answer \in {"arn", "deniedWithArn"} => config.userArn = Some(UserArn)
    /\ answer = "noUser" => config.userArn = Some("")

\* initPlatform has completed with the user's ARN although the identity
\* lookup was rejected.
C39_Witness ==
  /\ last.op = "initPlatform"
  /\ last.calls # <<>>
  /\ last.calls[1].answer = "deniedWithArn"
  /\ ~last.calls[1].ok
  /\ ~last.threw
  /\ config.userArn = Some(UserArn)

\* C40: once the identity client exists no step replaces it; the first
\* initPlatform that gets past its configuration check builds it from the
\* region and credentials of that call, and every identity lookup goes
\* through the client that exists then.
C40_IamClientBuiltOnce ==
  [][ /\ IsDefined(iam) => iam' = iam
      /\ (last'.op = "initPlatform" /\ last'.calls # <<>>) =>
           /\ IsDefined(iam')
           /\ last'.calls[1].client = Get(iam')
           /\ ~IsDefined(iam) =>
                /\ Some(Get(iam').region) = config'.region
                /\ Some(Get(iam').credentials) = config'.credentials ]_vars

\* A second initPlatform, for another region and other credentials, has
\* looked the user up through the client of the first.
C40_Witness ==
  /\ last.op = "initPlatform"
  /\ last.calls # <<>>
  /\ IsDefined(iam)
  /\ last.calls[1].client = Get(iam)
  /\ Some(Get(iam).region) # config.region
  /\ Get(iam).credentials.accessKeyId # Get(config.credentials).accessKeyId

====
